---- MODULE Spec2Model ----
(***************************************************************************)
(* Model of the itinerary extraction pipeline of flight-analysis           *)
(* (src/eduardo.py, src/auxiliary.py, src/excel_data.py, src/models.py).   *)
(*                                                                         *)
(* Six specifications share the module:                                    *)
(*   SpecPlanner  generate_xml_query_batch on every small code sheet       *)
(*   SpecParser   parse_results, one XML element per step                  *)
(*   SpecRun      run_eduardo: query_and_process_flights,                  *)
(*                process_flight_data, save and cleanup                    *)
(*   SpecMain     the run started from src/main.py with its five flags     *)
(*   SpecTwice    parse_results invoked twice on the same document         *)
(*   SpecBuilder  create_reference_dataframes between reference elements   *)
(***************************************************************************)
EXTENDS Integers, Sequences, FiniteSets, TLC

VARIABLES
    \* ---- module globals of src/auxiliary.py, shared by every parse ----
    dictionaries,     \* carrier_dict, city_dict, airport_dict, aircraft_dict
    \* ---- locals of parse_results (src/eduardo.py:363-427) ----
    ppc,              \* "idle" | "iter" | "returned" | "raised"
    p_args,           \* <<flight_type, query_type, batch_num>> of the invocation
    dfs,              \* list of emitted one-row dataframes
    s_id,             \* solution counter
    row,              \* row counter
    started_yet,      \* itineraryFullDetail seen
    state,            \* <<>> (None) or <<FlightDetails>>
    child,            \* the element of the current loop iteration
    log,              \* records written by logger.error in the loop
    fed,              \* number of elements iterated over, all invocations
    parses,           \* number of parse_results invocations started
    seen_marker,      \* history: a results-start marker was iterated over
    sols_after,       \* history: solution elements at or after the marker
    \* ---- module globals of src/eduardo.py:42-43 (the code sheet) ----
    origins,          \* IATA codes of the rows marked origin only
    destinations,     \* IATA codes of the rows marked destination only
    origin_and_destination,   \* IATA codes of the rows marked both
    \* ---- generate_xml_query_batch (src/eduardo.py:86-205) ----
    q_args,           \* <<query_type, flight_type, enable_batching, batch_size>>
    queries,          \* the list it returned, <<>> before the first call
    \* ---- a run of run_eduardo (src/eduardo.py:1207-1279) ----
    rpc,              \* the statement the run is at
    cli_args,         \* the flags given on the command line of src/main.py
    config,           \* Config
    aws,              \* AWS_EXECUTION_ENV is set
    flight_types,     \* data_manager.get_flight_types()
    countries_df,     \* data_manager.get_countries_dataframe()
    loop,             \* indexes of the flight type, query type and batch loops
    batched_queries,  \* the queries of the current flight and query type
    requests,         \* number of execute_query calls
    live,             \* number of requests.post calls
    query_files,      \* the files under queries/
    result_files,     \* the files under results/: name -> document
    results,          \* the response document being handled, <<>> when cleared
    batch_dfs,        \* what parse_results returned for the batch
    temp_files,       \* names of the pickle files written, in order
    files,            \* the pickle files in tmp_dir: name -> dataframe
    all_dfs,          \* the dataframes read back
    reference_data,   \* the five lookup tables
    combined_data,    \* the cleaned concatenation of all_dfs
    enriched_data,    \* what enrich_flight_data returned
    transformed_data, \* what transform_flight_structure returned
    final_data,       \* what calculate_flight_metrics returned
    processed_data,   \* processed_data of run_eduardo
    db_table,         \* the rows of the table EDUARDO_DATA
    db_attempts,      \* number of save_to_database calls
    warnings,         \* records written by logger.warning and logger.error
    outputs,          \* the output files written by save_processed_data
    trace,            \* history: the steps of the run, in order
    \* ---- parse_results invoked twice on one document ----
    twice_pc,         \* "idle" | "first" | "reset" | "second" | "done"
    twice_doc,        \* the document
    twice_args,       \* <<flight_type, query_type, batch_num>> of both invocations
    first_return,     \* what the first invocation returned
    second_return     \* what the second invocation returned

parserVars == <<ppc, p_args, dfs, s_id, row, started_yet, state,
                child, log, fed, parses, seen_marker, sols_after>>
sheetVars == <<origins, destinations, origin_and_destination>>
plannerVars == <<q_args, queries>>
runVars == <<rpc, cli_args, config, aws, flight_types, countries_df, loop,
             batched_queries, requests, live, query_files, result_files,
             results, batch_dfs, temp_files, files, all_dfs, reference_data,
             combined_data, enriched_data, transformed_data, final_data,
             processed_data, db_table, db_attempts, warnings, outputs, trace>>
twiceVars == <<twice_pc, twice_doc, twice_args, first_return, second_return>>
vars == <<dictionaries, parserVars, sheetVars, plannerVars, runVars, twiceVars>>

---------------------------------------------------------------------------
\* Values

\* Python's None where a str is expected
None == "<None>"
\* the readings of the wall clock
Clock == {0, 1}
\* the datetime object returned by datetime.datetime.now() at reading t
NowStamp(t) == "<now " \o ToString(t) \o ">"
\* FlightDetails has not been constructed yet (state = None)
NoState == <<>>

QueryTypes == <<"ORIGIN", "DESTINATION">>

\* a str or None is truthy when it is neither None nor ''
truthy_unless_none(v) == v # None
truthy(v) == v # None /\ v # ""

---------------------------------------------------------------------------
\* XML elements: a tag and the attributes that are present

El(t, a) == [tag |-> t, attrib |-> a]
NoAttrib == <<>>
has(e, k) == k \in DOMAIN e.attrib

Marker == El("itineraryFullDetail", NoAttrib)
Solution == El("solution", NoAttrib)
Flight(c, n) == El("flight", [carrier |-> c, number |-> n])
Leg(o, d, dep, arr) ==
    El("leg", [origin |-> o, destination |-> d, departure |-> dep, arrival |-> arr])
Aircraft(n, w) == El("aircraft", [code |-> n, name |-> n, width |-> w])
CarrierRef(c, n) == El("carrier", [code |-> c, name |-> n, shortName |-> c])
CityRef(c, ctry) == El("city", [code |-> c, country |-> ctry, name |-> c])
AirportRef(cty, c, n) ==
    El("airport", [city |-> cty, code |-> c, latitude |-> "0.0",
                   longitude |-> "0.0", name |-> n])

---------------------------------------------------------------------------
\* src/auxiliary.py

EmptyDictionaries ==
    [carrier  |-> [code |-> <<>>, name |-> <<>>, shortName |-> <<>>],
     city     |-> [code |-> <<>>, country |-> <<>>, name |-> <<>>],
     airport  |-> [city |-> <<>>, code |-> <<>>, latitude |-> <<>>,
                   longitude |-> <<>>, name |-> <<>>],
     aircraft |-> [code |-> <<>>, name |-> <<>>, width |-> <<>>]]

append_to_dict_lists_replacing(target_dict, row_dict) ==
    [key \in DOMAIN target_dict |->
        IF key \in DOMAIN row_dict THEN <<row_dict[key]>> ELSE target_dict[key]]
append_to_dict_lists(target_dict, row_dict) ==
    [key \in DOMAIN target_dict |->
        IF key \in DOMAIN row_dict
        THEN Append(target_dict[key], row_dict[key])
        ELSE target_dict[key]]

process_dict_updates(dicts, el) ==
    IF el.tag \in DOMAIN dicts
    THEN [dicts EXCEPT ![el.tag] = append_to_dict_lists(@, el.attrib)]
    ELSE dicts

---------------------------------------------------------------------------
\* FlightDetails and the per-element handlers

NewFlightDetails(ft, sid, qt, bn) ==
    [flight_type |-> ft, s_id |-> sid, f_id |-> None, carrier |-> None,
     origin |-> None, destination |-> None, depart_dt |-> None,
     arrive_dt |-> None, aircraft |-> None, width |-> None,
     query_type |-> qt, batch_num |-> bn]

update_flight_info(el, fd) ==
    [fd EXCEPT !.f_id = el.attrib.carrier \o el.attrib.number,
               !.carrier = el.attrib.carrier]

update_leg_info_keeping_codes(el, fd, now) ==
    IF has(el, "origin") /\ has(el, "destination")
       /\ has(el, "departure") /\ has(el, "arrival")
    THEN [fd EXCEPT !.origin = el.attrib.origin,
                    !.destination = el.attrib.destination,
                    !.depart_dt = el.attrib.departure,
                    !.arrive_dt = el.attrib.arrival]
    ELSE [fd EXCEPT !.depart_dt = NowStamp(now), !.arrive_dt = NowStamp(now)]

\* lines 280-290: a missing attribute empties the codes and stamps the clock
update_leg_info(el, fd, now) ==
    IF has(el, "origin") /\ has(el, "destination")
       /\ has(el, "departure") /\ has(el, "arrival")
    THEN [fd EXCEPT !.origin = el.attrib.origin,
                    !.destination = el.attrib.destination,
                    !.depart_dt = el.attrib.departure,
                    !.arrive_dt = el.attrib.arrival]
    ELSE [fd EXCEPT !.origin = "", !.destination = "",
                    !.depart_dt = NowStamp(now), !.arrive_dt = NowStamp(now)]

update_aircraft_info(el, fd) ==
    [fd EXCEPT !.aircraft = el.attrib.name, !.width = el.attrib.width]

\* the handler of update_flight_details raises KeyError on this element
raises_KeyError(el) ==
    \/ el.tag = "flight" /\ ~(has(el, "carrier") /\ has(el, "number"))
    \/ el.tag = "aircraft" /\ ~(has(el, "name") /\ has(el, "width"))

update_flight_details(el, fd, now) ==
    CASE el.tag = "flight"   -> update_flight_info(el, fd)
      [] el.tag = "leg"      -> update_leg_info(el, fd, now)
      [] el.tag = "aircraft" -> update_aircraft_info(el, fd)
      [] OTHER               -> fd

create_flight_row(fd) ==
    [Flight_Type |-> fd.flight_type, Origin |-> fd.origin,
     Destination |-> fd.destination, Flight_No |-> fd.f_id,
     Airline_Code |-> fd.carrier, Aircraft |-> fd.aircraft, Width |-> fd.width,
     Solution_ID |-> fd.s_id, Departure_Time |-> fd.depart_dt,
     Arrival_Time |-> fd.arrive_dt, Query_Type |-> fd.query_type,
     Batch_Number |-> fd.batch_num]

validate_without_carrier(fd) ==
    /\ truthy(fd.origin) /\ truthy(fd.destination)
    /\ truthy(fd.f_id)
    /\ fd.s_id # 0

\* flight_type is an Enum member (always truthy), s_id an int (truthy when not 0)
validate_flight_details(fd) ==
    /\ truthy(fd.origin) /\ truthy(fd.destination)
    /\ truthy(fd.f_id) /\ truthy(fd.carrier)
    /\ fd.s_id # 0

---------------------------------------------------------------------------
\* One iteration of the loop of parse_results over the record ps of its locals

ParserLocals(args) ==
    [dfs |-> <<>>, s_id |-> 0, row |-> 0, started_yet |-> FALSE,
     state |-> NoState, log |-> <<>>, raised |-> FALSE, args |-> args]

\* lines 385-386: the flag is set when the marker is met, and never cleared
mark_started_always(flag, el) == TRUE
mark_started(flag, el) == flag \/ el.tag = "itineraryFullDetail"

\* lines 393-394: the solution counter
count_solution_twice(sid, el) == IF el.tag = "solution" THEN sid + 2 ELSE sid
count_solution(sid, el) == IF el.tag = "solution" THEN sid + 1 ELSE sid

\* now: what datetime.datetime.now() returns during this iteration
parse_results_iter(ps, dicts, el, now) ==
    LET d1 == process_dict_updates(dicts, el)
        started == mark_started(ps.started_yet, el)
    IN
    IF ~started THEN [ps |-> ps, dicts |-> d1]
    ELSE
    LET is_sol == el.tag = "solution"
        sid == count_solution(ps.s_id, el)
        st1 == IF is_sol
               THEN <<NewFlightDetails(ps.args[1], sid, ps.args[2], ps.args[3])>>
               ELSE ps.state
        ps1 == [ps EXCEPT !.started_yet = TRUE, !.s_id = sid, !.state = st1]
    IN
    IF st1 = NoState THEN [ps |-> ps1, dicts |-> d1]
    ELSE IF raises_KeyError(el) THEN [ps |-> [ps1 EXCEPT !.raised = TRUE], dicts |-> d1]
    ELSE
    LET fd == update_flight_details(el, st1[1], now)
        ps2 == [ps1 EXCEPT !.state = <<fd>>]
    IN
    IF el.tag # "aircraft" THEN [ps |-> ps2, dicts |-> d1]
    ELSE IF validate_flight_details(fd)
    THEN [ps |-> [ps2 EXCEPT !.dfs = Append(@, create_flight_row(fd)),
                             !.row = @ + 1],
          dicts |-> d1]
    ELSE [ps |-> [ps2 EXCEPT !.log = Append(@, "Skipping invalid row")],
          dicts |-> d1]

\* parse_results over a whole document: the locals at return, or raised;
\* the clock reads clock at the call and one more at each later element
RECURSIVE parse_from(_, _, _, _, _)
parse_from(ps, dicts, doc, i, clock) ==
    IF i > Len(doc) \/ ps.raised THEN [ps |-> ps, dicts |-> dicts]
    ELSE LET r == parse_results_iter(ps, dicts, doc[i], clock + i)
         IN parse_from(r.ps, r.dicts, doc, i + 1, clock)

parse_results(doc, dicts, args, clock) ==
    parse_from(ParserLocals(args), dicts, doc, 1, clock)

---------------------------------------------------------------------------
\* src/excel_data.py: the origins-and-destinations sheet

\* an empty cell of the sheet (dtype=str reads it as NaN)
NaN == "<nan>"

\* row k of the sheet: its IATA code and its Origin and Destination marks
SheetRow(k, o, d) == [IATA_Code |-> "A" \o ToString(k), Origin |-> o, Destination |-> d]

\* df[IATA_CODE].to_numpy().tolist() of the rows whose marks are o and d
RECURSIVE iata_codes_where(_, _, _, _)
iata_codes_where(sheet, o, d, i) ==
    IF i > Len(sheet) THEN <<>>
    ELSE (IF sheet[i].Origin = o /\ sheet[i].Destination = d
          THEN <<sheet[i].IATA_Code>> ELSE <<>>)
         \o iata_codes_where(sheet, o, d, i + 1)

\* (Origin == "X") & Destination.isna()
get_origins(sheet) == iata_codes_where(sheet, "X", NaN, 1)

\* Origin.isna() & (Destination == "X")
get_destinations(sheet) == iata_codes_where(sheet, NaN, "X", 1)

\* (Origin == "X") & (Destination == "X")
get_origin_and_destination(sheet) == iata_codes_where(sheet, "X", "X", 1)

---------------------------------------------------------------------------
\* generate_xml_query_batch

\* items[lo:hi] of Python, lo and hi 0-based and hi clamped to len(items)
py_slice(items, lo, hi) ==
    LET h == IF hi > Len(items) THEN Len(items) ELSE hi
    IN IF lo >= h THEN <<>> ELSE SubSeq(items, lo + 1, h)

RECURSIVE batch_from(_, _, _)
batch_from(items, size, i) ==
    IF i >= Len(items) THEN <<>>
    ELSE <<py_slice(items, i, i + size)>> \o batch_from(items, size, i + size)

batch_list_overlapping(items, size) ==
    [k \in 1..Len(batch_from(items, size, 0)) |->
        py_slice(items, (k - 1) * size, k * size + 1)]

\* [items[i:i + size] for i in range(0, len(items), size)]
batch_list(items, size) == batch_from(items, size, 0)

\* one child of an element: its tag and its text
Child(t, x) == [tag |-> t, text |-> x]

\* the children create_base_xml gives the slice element
base_slice ==
    <<Child("date", "today"), Child("minConnectionTime", "param"),
      Child("maxStopCount", "param"), Child("daysAfter", "param")>>

\* the search element: the permitted service type and the slice's children
create_base_xml(flight_type) ==
    [permittedServiceType |-> flight_type, slice |-> base_slice]

add_elements(search, tag, codes) ==
    [search EXCEPT !.slice = @ \o [i \in 1..Len(codes) |-> Child(tag, codes[i])]]

primary_element(query_type) ==
    IF query_type = "ORIGIN" THEN "origin" ELSE "destination"
secondary_element(query_type) ==
    IF query_type = "ORIGIN" THEN "destination" ELSE "origin"

primary_codes(query_type, o, d, od) ==
    IF query_type = "ORIGIN" THEN od \o o ELSE od \o d

secondary_codes_with_both(query_type, o, d, od) ==
    IF query_type = "ORIGIN" THEN od \o d ELSE od \o o

secondary_codes(query_type, o, d, od) ==
    IF query_type = "ORIGIN" THEN d ELSE o

one_query_of_first_batch(query_type, flight_type, batch_size, o, d, od) ==
    <<<<add_elements(
          add_elements(create_base_xml(flight_type), primary_element(query_type),
                       py_slice(primary_codes(query_type, o, d, od), 0, batch_size)),
          secondary_element(query_type), secondary_codes(query_type, o, d, od)),
        1>>>>

\* lines 166-183
non_batched_queries(query_type, flight_type, batch_size, o, d, od) ==
    <<<<add_elements(
          add_elements(create_base_xml(flight_type), primary_element(query_type),
                       primary_codes(query_type, o, d, od)),
          secondary_element(query_type), secondary_codes(query_type, o, d, od)),
        1>>>>

\* lines 185-205
batched_mode_queries(query_type, flight_type, batch_size, o, d, od) ==
    LET primary_batches == batch_list(primary_codes(query_type, o, d, od), batch_size)
    IN [batch_num \in 1..Len(primary_batches) |->
          <<add_elements(
              add_elements(create_base_xml(flight_type), primary_element(query_type),
                           primary_batches[batch_num]),
              secondary_element(query_type), secondary_codes(query_type, o, d, od)),
            batch_num>>]

generate_xml_query_batch(query_type, flight_type, enable_batching, batch_size, o, d, od) ==
    IF ~enable_batching
    THEN non_batched_queries(query_type, flight_type, batch_size, o, d, od)
    ELSE batched_mode_queries(query_type, flight_type, batch_size, o, d, od)

---------------------------------------------------------------------------
\* Dataframes: a sequence of rows, each row a record of its columns

\* the rows at the positions in keep, in order
RECURSIVE rows_at(_, _, _)
rows_at(rows, keep, i) ==
    IF i > Len(rows) THEN <<>>
    ELSE (IF i \in keep THEN <<rows[i]>> ELSE <<>>) \o rows_at(rows, keep, i + 1)

\* pd.DataFrame(d) of a dict of lists raises ValueError unless all lists
\* have the same length
same_lengths(d) == \A k1 \in DOMAIN d, k2 \in DOMAIN d : Len(d[k1]) = Len(d[k2])
any_column(d) == CHOOSE k \in DOMAIN d : TRUE
DataFrame(d) == [i \in 1..Len(d[any_column(d)]) |-> [k \in DOMAIN d |-> d[k][i]]]

\* df.drop_duplicates(): the first of each set of equal rows is kept
drop_duplicates(rows) ==
    rows_at(rows, {i \in 1..Len(rows) : \A j \in 1..(i - 1) : rows[j] # rows[i]}, 1)

drop_duplicates_code_skipped(rows) == rows
\* df.drop_duplicates(subset=['code'])
drop_duplicates_code(rows) ==
    rows_at(rows, {i \in 1..Len(rows) :
                      \A j \in 1..(i - 1) : rows[j].code # rows[i].code}, 1)

\* df[list(cols)].rename(columns=...): cols maps each new name to the old one
select_rename(rows, cols) ==
    [i \in 1..Len(rows) |-> [k \in DOMAIN cols |-> rows[i][cols[k]]]]

\* the rows of right that match the left row l on column on, joined to l
RECURSIVE matches_of(_, _, _, _)
matches_of(l, right, on, j) ==
    IF j > Len(right) THEN <<>>
    ELSE (IF right[j][on] = l[on] THEN <<l @@ right[j]>> ELSE <<>>)
         \o matches_of(l, right, on, j + 1)

\* left.merge(right, how='inner', on=on): the order of the left keys is kept
RECURSIVE merge_from(_, _, _, _)
merge_from(left, right, on, i) ==
    IF i > Len(left) THEN <<>>
    ELSE matches_of(left[i], right, on, 1) \o merge_from(left, right, on, i + 1)

merge_inner(left, right, on) == merge_from(left, right, on, 1)

---------------------------------------------------------------------------
\* create_reference_dataframes

\* lines 650-657
build_airport_df(city_df) ==
    drop_duplicates(
        merge_inner(DataFrame(dictionaries.airport),
                    select_rename(city_df, [city |-> "code", country |-> "country"]),
                    "city"))

\* one of the four pd.DataFrame(...) calls raises ValueError
reference_raises ==
    \E k \in DOMAIN dictionaries : ~same_lengths(dictionaries[k])

create_reference_dataframes(countries) ==
    LET city_df == drop_duplicates_code(DataFrame(dictionaries.city))
    IN [aircraft  |-> DataFrame(dictionaries.aircraft),
        carrier   |-> drop_duplicates(DataFrame(dictionaries.carrier)),
        city      |-> city_df,
        airport   |-> build_airport_df(city_df),
        countries |-> countries]

---------------------------------------------------------------------------
\* clean_raw_flight_data and enrich_flight_data

\* lines 704-707
clean_raw_flight_data(df) ==
    rows_at(df, {i \in 1..Len(df) : df[i].Origin # ""}, 1)

\* dateutil's parse of the timestamps of the documents: minutes of the day
date_parse(x) ==
    CASE x = "09:00" -> 540
      [] x = "10:00" -> 600
      [] x = "10:20" -> 620
      [] x = "10:40" -> 640
      [] x = "11:00" -> 660
      [] x = "12:00" -> 720
      [] x = "12:20" -> 740
      [] x = "13:30" -> 810

\* row a sorts strictly before row b on ['Solution ID', 'Departure Time']
sorts_before(a, b) ==
    \/ a.Solution_ID < b.Solution_ID
    \/ a.Solution_ID = b.Solution_ID /\ a.Departure_Time < b.Departure_Time

\* r put into the sorted rows after every row that does not sort after it
insert_sorted(sorted, r) ==
    LET n == Cardinality({i \in 1..Len(sorted) : ~sorts_before(r, sorted[i])})
    IN SubSeq(sorted, 1, n) \o <<r>> \o SubSeq(sorted, n + 1, Len(sorted))

sort_values_skipped(rows) == rows
\* results.sort_values(['Solution ID', 'Departure Time']): a stable sort
RECURSIVE sort_from(_, _, _)
sort_from(rows, sorted, i) ==
    IF i > Len(rows) THEN sorted
    ELSE sort_from(rows, insert_sorted(sorted, rows[i]), i + 1)

sort_values(rows) == sort_from(rows, <<>>, 1)

airport_columns(side) ==
    IF side = "Origin"
    THEN [Origin |-> "code", Origin_Airport_Name |-> "name",
          Origin_Country |-> "country", Origin_Latitude |-> "latitude",
          Origin_Longitude |-> "longitude"]
    ELSE [Destination |-> "code", Destination_Airport_Name |-> "name",
          Destination_Country |-> "country", Destination_Latitude |-> "latitude",
          Destination_Longitude |-> "longitude"]

\* lines 732-735
join_origin(flight_data, refs) ==
    merge_inner(flight_data,
                select_rename(refs.airport, airport_columns("Origin")),
                "Origin")

\* lines 750-753
join_destination(res, refs) ==
    merge_inner(res,
                select_rename(refs.airport, airport_columns("Destination")),
                "Destination")

\* lines 768-771
join_carrier(res, refs) ==
    merge_inner(res,
                select_rename(refs.carrier,
                              [Airline_Code |-> "code", Airline_Name |-> "name"]),
                "Airline_Code")

\* lines 780-783
parse_times(res) ==
    [i \in 1..Len(res) |->
        [res[i] EXCEPT !.Departure_Time = date_parse(@),
                           !.Arrival_Time = date_parse(@)]]

enrich_flight_data(flight_data, refs) ==
    sort_values(
        parse_times(
            join_carrier(
                join_destination(join_origin(flight_data, refs),
                                 refs),
                refs)))

\* lines 738-745, 756-763, 774-776: the warnings of the three joins, each
\* emitted when the join returned fewer rows than it was given
enrich_warnings(flight_data, refs) ==
    LET after_origin == join_origin(flight_data, refs)
        after_destination == join_destination(after_origin, refs)
        after_carrier == join_carrier(after_destination, refs)
        airports == {refs.airport[i].code : i \in 1..Len(refs.airport)}
        unknown(c) == {flight_data[i][c] : i \in 1..Len(flight_data)} \ airports
    IN (IF Len(after_origin) < Len(flight_data)
        THEN <<"Lost rows when joining origin airport data">>
             \o (IF unknown("Origin") # {} THEN <<"Unknown origins">> ELSE <<>>)
        ELSE <<>>)
       \o (IF Len(after_destination) < Len(after_origin)
           THEN <<"Lost rows when joining destination airport data">>
                \o (IF unknown("Destination") # {}
                    THEN <<"Unknown destinations">> ELSE <<>>)
           ELSE <<>>)
       \o (IF Len(after_carrier) < Len(after_destination)
           THEN <<"Lost rows when joining carrier data">> ELSE <<>>)

---------------------------------------------------------------------------
\* transform_flight_structure

\* '|'.join(xs): the items with a separator between neighbours
RECURSIVE pipe_join(_)
pipe_join(xs) ==
    IF Len(xs) = 0 THEN <<>>
    ELSE IF Len(xs) = 1 THEN <<xs[1]>>
    ELSE <<xs[1], "|">> \o pipe_join(Tail(xs))

column(rows, c) == [i \in 1..Len(rows) |-> rows[i][c]]

\* the rows of one group of groupby('Solution ID'), in the order of the frame
group_rows(flight_data, sid) ==
    rows_at(flight_data,
            {i \in 1..Len(flight_data) : flight_data[i].Solution_ID = sid}, 1)

\* the keys of groupby('Solution ID'), ascending
RECURSIVE ascending(_)
ascending(S) ==
    IF S = {} THEN <<>>
    ELSE LET m == CHOOSE x \in S : \A y \in S : x <= y
         IN <<m>> \o ascending(S \ {m})

group_keys(flight_data) ==
    ascending({flight_data[i].Solution_ID : i \in 1..Len(flight_data)})

\* lines 808-838: the aggregation of one group g and the renamed columns
\* (no column of an enriched row is null, so 'first' and 'last' are the
\* first and the last row of the group)
agg_group(g) ==
    LET first == g[1]
        last == g[Len(g)]
    IN [Flight_Type |-> first.Flight_Type,
        Flights |-> column(g, "Flight_No"),
        Num_Stops |-> Len(g),
        Origin_IATA |-> first.Origin,
        Origin_Airport_Name |-> first.Origin_Airport_Name,
        Origin_ISO_Country_Code |-> first.Origin_Country,
        Origin_Latitude |-> first.Origin_Latitude,
        Origin_Longitude |-> first.Origin_Longitude,
        Via_IATA |-> first.Destination,
        Destination_IATA |-> last.Destination,
        Via_Airport_Name |-> first.Destination_Airport_Name,
        Destination_Airport_Name |-> last.Destination_Airport_Name,
        Via_ISO_Country_Code |-> first.Destination_Country,
        Destination_ISO_Country_Code |-> last.Destination_Country,
        Via_Latitude |-> first.Destination_Latitude,
        Destination_Latitude |-> last.Destination_Latitude,
        Via_Longitude |-> first.Destination_Longitude,
        Destination_Longitude |-> last.Destination_Longitude,
        Airline_Codes |-> pipe_join(column(g, "Airline_Code")),
        Airline_Names |-> pipe_join(column(g, "Airline_Name")),
        Aircrafts |-> pipe_join(column(g, "Aircraft")),
        Widths |-> pipe_join(column(g, "Width")),
        Departure_DT |-> first.Departure_Time,
        Arrival_DT |-> last.Arrival_Time]

groupby_agg(flight_data) ==
    LET keys == group_keys(flight_data)
    IN [k \in 1..Len(keys) |-> agg_group(group_rows(flight_data, keys[k]))]

\* the countries sheet lacks a 'name' or a 'code' column: the merge raises
Malformed == <<[columns |-> "none"]>>

\* lines 841-856
add_countries(cleaned, countries) ==
    IF countries = Malformed THEN cleaned
    ELSE merge_inner(
           merge_inner(cleaned,
                       select_rename(countries,
                                     [Origin_Country |-> "name",
                                      Origin_ISO_Country_Code |-> "code"]),
                       "Origin_ISO_Country_Code"),
           select_rename(countries,
                         [Destination_Country |-> "name",
                          Destination_ISO_Country_Code |-> "code"]),
           "Destination_ISO_Country_Code")

fix_via_never(r) == r

\* lines 859-860
fix_via(r) ==
    IF r.Via_IATA # r.Destination_IATA THEN r ELSE [r EXCEPT !.Via_IATA = None]

transform_flight_structure(flight_data, refs) ==
    LET cleaned == add_countries(groupby_agg(flight_data), refs.countries)
    IN [i \in 1..Len(cleaned) |->
          [fix_via(cleaned[i]) EXCEPT !.Flights = pipe_join(@)]]

\* lines 855-856
transform_warnings(refs) ==
    IF refs.countries = Malformed
    THEN <<"Could not add country information">> ELSE <<>>

---------------------------------------------------------------------------
\* calculate_flight_metrics

\* timedelta.total_seconds() of the difference of two parsed timestamps
total_seconds_in_minutes(arrival, departure) == arrival - departure
total_seconds(arrival, departure) == (arrival - departure) * 60

\* round(x / (60**2), 2) in hundredths of an hour: the nearest hundredth (a
\* tie, which no whole number of minutes gives, is put on the even one)
round_hours(x) ==
    LET twice == (2 * 100 * x) \div 3600
        exact == (2 * 100 * x) % 3600 = 0
        down == twice \div 2
    IN IF twice % 2 = 0 THEN down
       ELSE IF exact THEN (IF down % 2 = 0 THEN down ELSE down + 1)
       ELSE down + 1

\* lines 891-904
required_columns ==
    {"Origin_IATA", "Origin_ISO_Country_Code", "Origin_Country",
     "Destination_IATA", "Destination_ISO_Country_Code", "Destination_Country",
     "Departure_Time_local", "Arrival_Time_local", "Flight_Num", "Airline_IATA",
     "duration", "Arrival_Time_Hour", "Origin_Latitude", "Origin_Longitude",
     "Origin_Airport_Name", "Origin_Closed", "Destination_Latitude",
     "Destination_Longitude", "Destination_Airport_Name", "Destination_Closed",
     "Country_Alert_Updated", "Alert_Date", "Alert_Time", "Message", "Mode",
     "Num_Stops", "Current_Capacity_Status", "Current_Capacity_Status_Ind",
     "Passenger_Flight_Capacity_Change", "Passenger_Flight_Capacity_Change_Num",
     "Freighter_Capacity_Change", "Freighter_Capacity_Change_Num",
     "Flights", "Via_IATA", "Departure_DT", "Arrival_DT", "Dummy_Column_4",
     "Dummy_Column_5", "Dummy_Column_6"}

calculate_flight_metrics_unpadded(flight_data, now) ==
    [i \in 1..Len(flight_data) |->
        LET r == flight_data[i]
            Duration_DT == total_seconds(r.Arrival_DT, r.Departure_DT)
        IN [c \in (DOMAIN r) \cup {"Duration_DT", "duration", "Updated"} |->
               IF c = "Duration_DT" THEN Duration_DT
               ELSE IF c = "duration" THEN round_hours(Duration_DT)
               ELSE IF c = "Updated" THEN NowStamp(now)
               ELSE r[c]]]
\* lines 885-917; now is the reading of the clock for the 'Updated' column
calculate_flight_metrics(flight_data, now) ==
    [i \in 1..Len(flight_data) |->
        LET r == flight_data[i]
            Duration_DT == total_seconds(r.Arrival_DT, r.Departure_DT)
            computed == [Duration_DT |-> Duration_DT,
                         duration |-> round_hours(Duration_DT),
                         Updated |-> NowStamp(now)]
        IN [c \in (DOMAIN r) \cup required_columns \cup DOMAIN computed |->
               IF c \in DOMAIN computed THEN computed[c]
               ELSE IF c \in DOMAIN r THEN r[c]
               ELSE None]]

---------------------------------------------------------------------------
\* The values each group of variables has before its code has run

\* batch_size of query_and_process_flights
BatchSize == 15

ParserIdle ==
    /\ ppc = "idle"
    /\ p_args = <<"F", "ORIGIN", 1>>
    /\ dfs = <<>> /\ s_id = 0 /\ row = 0 /\ started_yet = FALSE
    /\ state = NoState
    /\ child = El("", NoAttrib)
    /\ log = <<>>
    /\ fed = 0 /\ parses = 0
    /\ seen_marker = FALSE /\ sols_after = 0

SheetIdle ==
    /\ origins = <<>> /\ destinations = <<>> /\ origin_and_destination = <<>>

NoReferenceData ==
    [aircraft |-> <<>>, carrier |-> <<>>, city |-> <<>>, airport |-> <<>>,
     countries |-> <<>>]

RunIdle ==
    /\ rpc = "idle"
    /\ cli_args = [o |-> FALSE, d |-> FALSE, c |-> FALSE, b |-> FALSE, s |-> FALSE]
    /\ config = [o |-> FALSE, d |-> FALSE, c |-> FALSE, b |-> FALSE, s |-> FALSE]
    /\ aws = FALSE
    /\ live = 0 /\ query_files = {} /\ result_files = <<>>
    /\ final_data = <<>> /\ processed_data = <<>>
    /\ db_table = <<>> /\ db_attempts = 0
    /\ warnings = <<>> /\ outputs = {} /\ trace = <<>>
    /\ flight_types = <<>>
    /\ countries_df = <<>>
    /\ loop = [flight_type |-> 1, query_type |-> 1, batch |-> 1]
    /\ batched_queries = <<>>
    /\ requests = 0
    /\ results = <<>>
    /\ batch_dfs = <<>>
    /\ temp_files = <<>>
    /\ files = <<>>
    /\ all_dfs = <<>>
    /\ reference_data = NoReferenceData
    /\ combined_data = <<>>
    /\ enriched_data = <<>>
    /\ transformed_data = <<>>

\* parse_results has returned nothing yet
NoReturn == [dfs |-> <<>>, row |-> 0, s_id |-> 0, raised |-> FALSE]

TwiceIdle ==
    /\ twice_pc = "idle"
    /\ twice_doc = <<>>
    /\ twice_args = <<"F", "ORIGIN", 1>>
    /\ first_return = NoReturn /\ second_return = NoReturn

\* q_args is <<>> as long as generate_xml_query_batch has not been called
PlannerIdle ==
    /\ q_args = <<>>
    /\ queries = <<>>

---------------------------------------------------------------------------
\* SpecPlanner: generate_xml_query_batch called on the loaded sheet

\* bounds of the planner specification
MaxSheetRows == 4
MaxBatchSize == 3

FlightTypeNames == {"F", "H"}
Marks == {"X", NaN}

Sheets ==
    UNION {{[k \in 1..n |-> SheetRow(k, m[k][1], m[k][2])] :
                m \in [1..n -> Marks \X Marks]} : n \in 0..MaxSheetRows}

\* data_manager.get_origins_and_destinations() at import: eduardo.py:42-43
SheetLoaded ==
    \E sheet \in Sheets :
        /\ origins = get_origins(sheet)
        /\ destinations = get_destinations(sheet)
        /\ origin_and_destination = get_origin_and_destination(sheet)

PlannerInit ==
    /\ dictionaries = EmptyDictionaries
    /\ SheetLoaded /\ PlannerIdle /\ ParserIdle /\ RunIdle /\ TwiceIdle

GenerateXmlQueryBatch ==
    /\ \E qt \in {"ORIGIN", "DESTINATION"}, ft \in FlightTypeNames,
          eb \in BOOLEAN, bs \in (1..MaxBatchSize) \cup {BatchSize} :
        /\ q_args' = <<qt, ft, eb, bs>>
        /\ queries' = generate_xml_query_batch(qt, ft, eb, bs, origins,
                                               destinations, origin_and_destination)
    /\ UNCHANGED <<dictionaries, parserVars, sheetVars, runVars, twiceVars>>

PlannerNext == GenerateXmlQueryBatch

SpecPlanner == PlannerInit /\ [][PlannerNext]_vars

---------------------------------------------------------------------------
\* SpecParser: parse_results fed one element per step

\* bounds of the parser specification
MaxFed == 6
MaxParses == 2
MaxRefRows == 2

\* the elements a response document is made of
ParserElements ==
    <<Marker,
      Solution,
      Flight("X", "1"),
      Flight("", "7"),
      El("flight", [carrier |-> "X"]),
      Leg("A", "B", "10:00", "11:00"),
      Leg("B", "C", "12:00", "13:30"),
      El("leg", [origin |-> "A", destination |-> "B", departure |-> "10:00"]),
      Aircraft("737", "narrow"),
      El("aircraft", [name |-> "737"]),
      CarrierRef("X", "Xair"),
      El("slice", NoAttrib)>>

\* the arguments parse_results is invoked with
ParseArgs == {<<"F", "ORIGIN", 1>>, <<"H", "DESTINATION", 2>>}

RefRows(dicts) ==
    Len(dicts.carrier.code) + Len(dicts.city.code)
    + Len(dicts.airport.code) + Len(dicts.aircraft.name)

\* parse_results is called: lines 366-378
ParseStart ==
    /\ ppc \in {"idle", "returned", "raised"}
    /\ parses < MaxParses
    /\ \E a \in ParseArgs : p_args' = a
    /\ ppc' = "iter"
    /\ dfs' = <<>> /\ s_id' = 0 /\ row' = 0 /\ started_yet' = FALSE
    /\ state' = NoState
    /\ log' = <<>>
    /\ parses' = parses + 1
    /\ seen_marker' = FALSE /\ sols_after' = 0
    /\ UNCHANGED <<dictionaries, child, fed>>
    /\ UNCHANGED <<sheetVars, plannerVars, runVars, twiceVars>>

CurrentLocals ==
    [dfs |-> dfs, s_id |-> s_id, row |-> row, started_yet |-> started_yet,
     state |-> state, log |-> log, raised |-> FALSE, args |-> p_args]

\* one iteration of the for loop: lines 380-425
ParseIter ==
    /\ ppc = "iter"
    /\ fed < MaxFed
    /\ \E i \in 1..Len(ParserElements), now \in Clock :
        LET el == ParserElements[i]
            r == parse_results_iter(CurrentLocals, dictionaries, el, now)
        IN /\ RefRows(r.dicts) <= MaxRefRows
           /\ child' = el
           /\ dictionaries' = r.dicts
           /\ dfs' = r.ps.dfs /\ s_id' = r.ps.s_id /\ row' = r.ps.row
           /\ started_yet' = r.ps.started_yet /\ state' = r.ps.state
           /\ log' = r.ps.log
           /\ ppc' = IF r.ps.raised THEN "raised" ELSE "iter"
           /\ seen_marker' = (seen_marker \/ el.tag = "itineraryFullDetail")
           /\ sols_after' = IF el.tag = "solution" /\ seen_marker
                            THEN sols_after + 1 ELSE sols_after
    /\ fed' = fed + 1
    /\ UNCHANGED <<p_args, parses>>
    /\ UNCHANGED <<sheetVars, plannerVars, runVars, twiceVars>>

\* the loop is exhausted: line 427
ParseReturn ==
    /\ ppc = "iter"
    /\ ppc' = "returned"
    /\ UNCHANGED <<dictionaries, p_args, dfs, s_id, row, started_yet, state,
                   child, log, fed, parses, seen_marker, sols_after>>
    /\ UNCHANGED <<sheetVars, plannerVars, runVars, twiceVars>>

ParserInit ==
    /\ dictionaries = EmptyDictionaries
    /\ ParserIdle /\ SheetIdle /\ PlannerIdle /\ RunIdle /\ TwiceIdle

ParserNext == ParseStart \/ ParseIter \/ ParseReturn

SpecParser == ParserInit /\ [][ParserNext]_vars

---------------------------------------------------------------------------
\* SpecRun: one run of run_eduardo

\* bound of the run specification: the flight types selected in the sheet
MaxFlightTypes == 1

\* get_flight_types: the selected flight types, in the order of the sheet
SelectedFlightTypes ==
    {SubSeq(<<"F", "H", "J">>, 1, n) : n \in 1..MaxFlightTypes}

\* the reference section of a response
FullRefs ==
    <<CityRef("K1", "US"), CityRef("K2", "FR"),
      AirportRef("K1", "A", "Alpha"), AirportRef("K1", "B", "Bravo"),
      AirportRef("K2", "C", "Charlie"), CarrierRef("X", "Xair")>>
\* the same airport A under another name
RenamedRefs ==
    <<CityRef("K1", "US"), CityRef("K2", "FR"),
      AirportRef("K1", "A", "Alfa"), AirportRef("K2", "C", "Charlie"),
      CarrierRef("X", "Xair")>>

OneLeg(n, o, d, dep, arr) ==
    <<Flight("X", n), Leg(o, d, dep, arr), Aircraft("737", "narrow")>>

\* the response documents a request may be answered with
RunDocs ==
    << \* one itinerary of two legs A -> B -> C
       FullRefs \o <<Marker, Solution>>
         \o OneLeg("1", "A", "B", "10:00", "11:00")
         \o OneLeg("2", "B", "C", "12:00", "13:30"),
       \* one itinerary, from the unknown airport Z
       FullRefs \o <<Marker, Solution>>
         \o OneLeg("4", "Z", "B", "09:00", "10:00"),
       \* one direct itinerary, airport A under another name
       RenamedRefs \o <<Marker, Solution>>
         \o OneLeg("3", "A", "C", "09:00", "12:20"),
       \* an itinerary from the unknown airport Z, then a direct one
       FullRefs \o <<Marker, Solution>>
         \o OneLeg("4", "Z", "B", "09:00", "10:00")
         \o <<Solution>> \o OneLeg("3", "A", "C", "10:00", "13:30"),
       \* two legs that end where the first leg ended
       FullRefs \o <<Marker, Solution>>
         \o OneLeg("5", "A", "B", "09:00", "10:00")
         \o OneLeg("6", "C", "B", "10:20", "10:40"),
       \* no itinerary at all
       <<CarrierRef("X", "Xair"), Marker>>,
       \* an aircraft element without width inside an itinerary
       FullRefs \o <<Marker, Solution, Flight("X", "1"),
                     Leg("A", "B", "10:00", "11:00"),
                     El("aircraft", [name |-> "737"])>>,
       \* an airport element without coordinates
       <<CityRef("K1", "US"), El("airport", [city |-> "K1", code |-> "A", name |-> "Alpha"]),
         CarrierRef("X", "Xair"), Marker, Solution>>
         \o OneLeg("3", "A", "A", "10:00", "11:00") >>

\* the countries sheet
CountriesSheets ==
    {<<[code |-> "US", name |-> "United States"], [code |-> "FR", name |-> "France"]>>,
     <<[code |-> "US", name |-> "United States"]>>,
     Malformed}

\* the sheets of no row or of one row, marked as an origin
RunSheets ==
    {sheet \in Sheets :
        /\ Len(sheet) <= 1
        /\ \A k \in 1..Len(sheet) :
              sheet[k].Origin = "X" /\ sheet[k].Destination = NaN}

\* the values of a run's variables when run_eduardo is entered
RunStart ==
    /\ rpc = "generate"
    /\ loop = [flight_type |-> 1, query_type |-> 1, batch |-> 1]
    /\ batched_queries = <<>>
    /\ requests = 0 /\ live = 0
    /\ results = <<>>
    /\ batch_dfs = <<>>
    /\ temp_files = <<>>
    /\ files = <<>>
    /\ all_dfs = <<>>
    /\ reference_data = NoReferenceData
    /\ combined_data = <<>>
    /\ enriched_data = <<>>
    /\ transformed_data = <<>>
    /\ final_data = <<>>
    /\ processed_data = <<>>
    /\ db_attempts = 0
    /\ warnings = <<>>
    /\ outputs = {}
    /\ trace = <<>>

\* the rows of the table EDUARDO_DATA left by an earlier run
PreviousRows == <<[Flights |-> <<"previous">>]>>

RunInit ==
    /\ dictionaries = EmptyDictionaries
    /\ ParserIdle /\ PlannerIdle /\ TwiceIdle
    /\ \E sheet \in RunSheets :
        /\ origins = get_origins(sheet)
        /\ destinations = get_destinations(sheet)
        /\ origin_and_destination = get_origin_and_destination(sheet)
    /\ \E b \in BOOLEAN :
        /\ cli_args = [o |-> FALSE, d |-> FALSE, c |-> FALSE, b |-> b, s |-> FALSE]
        /\ config = cli_args
    /\ aws = FALSE
    /\ flight_types \in SelectedFlightTypes
    /\ countries_df \in CountriesSheets
    /\ query_files = {} /\ result_files = <<>>
    /\ db_table = PreviousRows
    /\ RunStart

notRun == <<parserVars, sheetVars, plannerVars, twiceVars>>
\* what a run never assigns
runEnv == <<cli_args, config, aws, flight_types, countries_df>>

current_flight_type == flight_types[loop.flight_type]
current_query_type == QueryTypes[loop.query_type]
current_batch_num == batched_queries[loop.batch][2]

\* the three for loops of query_and_process_flights are exhausted
loops_finished_early ==
    loop.query_type > 1 \/ loop.flight_type > Len(flight_types)
loops_finished == loop.flight_type > Len(flight_types)

\* one step of the run, for the order of the steps
step(name) == <<name, loop.flight_type, loop.query_type, loop.batch>>

\* lines 470-485: the next flight type and query type, and their queries
GenerateQueries ==
    /\ rpc = "generate"
    /\ ~loops_finished
    /\ batched_queries' =
         generate_xml_query_batch(current_query_type, current_flight_type,
                                  ~config.b, BatchSize, origins, destinations,
                                  origin_and_destination)
    /\ loop' = [loop EXCEPT !.batch = 1]
    /\ rpc' = "batch"
    /\ UNCHANGED <<dictionaries, notRun, runEnv, requests, results, batch_dfs,
                   temp_files, files, all_dfs, reference_data, combined_data,
                   enriched_data, transformed_data, final_data, processed_data,
                   query_files, result_files, live, db_table, db_attempts,
                   warnings, outputs, trace>>

\* queries/query{query_type}-{flight_type}-batch{n}.xml and
\* results/results{query_type}-{flight_type}-batch{n}.xml
scratch_file(dir, qt, ft, bn) ==
    [dir |-> dir, query_type |-> qt, flight_type |-> ft, batch |-> bn]

\* the file name holds content from now on
written(fs, name, content) ==
    [n \in (DOMAIN fs) \cup {name} |-> IF n = name THEN content ELSE fs[n]]

\* lines 488-509: the query is saved when running locally, then execute_query:
\* a live request answered with a document (stored when running locally), or
\* in offline mode the stored document, FileNotFoundError when there is none
ExecuteQuery ==
    /\ rpc = "batch"
    /\ loop.batch <= Len(batched_queries)
    /\ LET qname == scratch_file("queries", current_query_type,
                                 current_flight_type, current_batch_num)
           rname == scratch_file("results", current_query_type,
                                 current_flight_type, current_batch_num)
       IN /\ query_files' = IF aws THEN query_files ELSE query_files \cup {qname}
          /\ IF ~config.o
             THEN /\ \E k \in 1..Len(RunDocs) :
                       /\ results' = RunDocs[k]
                       /\ result_files' = IF aws THEN result_files
                                          ELSE written(result_files, rname, RunDocs[k])
                  /\ live' = live + 1
                  /\ rpc' = "parse"
             ELSE /\ IF rname \in DOMAIN result_files
                     THEN results' = result_files[rname] /\ rpc' = "parse"
                     ELSE results' = <<>> /\ rpc' = "failed"
                  /\ UNCHANGED <<result_files, live>>
    /\ requests' = requests + 1
    /\ trace' = Append(trace, step("request"))
    /\ UNCHANGED <<dictionaries, notRun, runEnv, loop, batched_queries, batch_dfs,
                   temp_files, files, all_dfs, reference_data, combined_data,
                   enriched_data, transformed_data, final_data, processed_data,
                   db_table, db_attempts, warnings, outputs>>

\* lines 514-523: parse_results on the document; a KeyError ends the run
ParseBatch ==
    /\ rpc = "parse"
    /\ \E clock \in Clock :
       LET r == parse_results(results, dictionaries,
                              <<current_flight_type, current_query_type,
                                current_batch_num>>, clock)
       IN /\ dictionaries' = r.dicts
          /\ batch_dfs' = IF r.ps.raised THEN <<>> ELSE r.ps.dfs
          /\ rpc' = IF r.ps.raised THEN "failed" ELSE "persist"
    /\ results' = <<>>
    /\ trace' = Append(trace, step("parse"))
    /\ UNCHANGED <<notRun, runEnv, loop, batched_queries, requests, temp_files,
                   files, all_dfs, reference_data, combined_data, enriched_data,
                   transformed_data, final_data, processed_data, query_files,
                   result_files, live, db_table, db_attempts, warnings, outputs>>

batch_file_of_flight_type(ft, qt, bn) == "batch_" \o ft \o ".pkl"
batch_file(ft, qt, bn) == "batch_" \o ft \o "_" \o qt \o "_" \o ToString(bn) \o ".pkl"

\* lines 525-549: a non-empty batch is pickled, then the next batch
PersistBatch ==
    /\ rpc = "persist"
    /\ LET name == batch_file(current_flight_type, current_query_type,
                              current_batch_num)
       IN IF batch_dfs # <<>>
          THEN /\ files' = written(files, name, batch_dfs)
               /\ temp_files' = Append(temp_files, name)
          ELSE UNCHANGED <<files, temp_files>>
    /\ batch_dfs' = <<>>
    /\ loop' = [loop EXCEPT !.batch = @ + 1]
    /\ rpc' = "batch"
    /\ trace' = Append(trace, step("persist"))
    /\ UNCHANGED <<dictionaries, notRun, runEnv, batched_queries, requests,
                   results, all_dfs, reference_data, combined_data, enriched_data,
                   transformed_data, final_data, processed_data, query_files,
                   result_files, live, db_table, db_attempts, warnings, outputs>>

\* lines 488, 471, 470: the batches are done; the next query type or flight type
NextQuery ==
    /\ rpc = "batch"
    /\ loop.batch > Len(batched_queries)
    /\ loop' = IF loop.query_type < Len(QueryTypes)
               THEN [loop EXCEPT !.query_type = @ + 1, !.batch = 1]
               ELSE [flight_type |-> loop.flight_type + 1, query_type |-> 1, batch |-> 1]
    /\ batched_queries' = <<>>
    /\ rpc' = "generate"
    /\ UNCHANGED <<dictionaries, notRun, runEnv, requests, results, batch_dfs,
                   temp_files, files, all_dfs, reference_data, combined_data,
                   enriched_data, transformed_data, final_data, processed_data,
                   query_files, result_files, live, db_table, db_attempts,
                   warnings, outputs, trace>>

has_results_always(raw_flight_data) == TRUE
\* line 1248: if raw_flight_data
has_results(raw_flight_data) == Len(raw_flight_data) > 0

\* lines 561-576: each listed file in turn is read and then removed; a file
\* that is no longer there raises, which is logged, and the file is skipped
RECURSIVE load_batch_files(_, _, _)
load_batch_files(names, fs, i) ==
    IF i > Len(names) THEN <<>>
    ELSE IF names[i] \in DOMAIN fs
              /\ \A j \in 1..(i - 1) : names[j] # names[i]
         THEN <<fs[names[i]]>> \o load_batch_files(names, fs, i + 1)
         ELSE load_batch_files(names, fs, i + 1)

\* lines 557-615 and 1248-1253: every pickle file is read back and removed;
\* process_flight_data is entered when a dataframe was read
LoadBatchFiles ==
    /\ rpc = "generate"
    /\ loops_finished
    /\ all_dfs' = load_batch_files(temp_files, files, 1)
    /\ files' = <<>>
    /\ rpc' = IF has_results(all_dfs') THEN "reference" ELSE "no_data"
    /\ UNCHANGED <<dictionaries, notRun, runEnv, loop, batched_queries, requests,
                   results, batch_dfs, temp_files, reference_data, combined_data,
                   enriched_data, transformed_data, final_data, processed_data,
                   query_files, result_files, live, db_table, db_attempts,
                   warnings, outputs, trace>>

\* pd.concat(raw_flight_data, ignore_index=True)
RECURSIVE concat(_)
concat(frames) == IF frames = <<>> THEN <<>> ELSE Head(frames) \o concat(Tail(frames))

\* lines 1048-1057: the reference tables; a ValueError ends the run
CreateReferenceDataframes ==
    /\ rpc = "reference"
    /\ IF reference_raises
       THEN rpc' = "failed" /\ UNCHANGED reference_data
       ELSE /\ reference_data' = create_reference_dataframes(countries_df)
            /\ rpc' = "clean"
    /\ trace' = Append(trace, step("reference"))
    /\ UNCHANGED <<dictionaries, notRun, runEnv, loop, batched_queries, requests,
                   results, batch_dfs, temp_files, files, all_dfs, combined_data,
                   enriched_data, transformed_data, final_data, processed_data,
                   query_files, result_files, live, db_table, db_attempts,
                   warnings, outputs>>

\* lines 1045-1046 and 1059-1061
CleanRawFlightData ==
    /\ rpc = "clean"
    /\ combined_data' = clean_raw_flight_data(concat(all_dfs))
    /\ rpc' = "enrich"
    /\ UNCHANGED <<dictionaries, notRun, runEnv, loop, batched_queries, requests,
                   results, batch_dfs, temp_files, files, all_dfs, reference_data,
                   enriched_data, transformed_data, final_data, processed_data,
                   query_files, result_files, live, db_table, db_attempts,
                   warnings, outputs, trace>>

\* lines 1063-1066
EnrichFlightData ==
    /\ rpc = "enrich"
    /\ enriched_data' = enrich_flight_data(combined_data, reference_data)
    /\ warnings' = warnings \o enrich_warnings(combined_data, reference_data)
    /\ rpc' = "transform"
    /\ trace' = Append(trace, step("enrich"))
    /\ UNCHANGED <<dictionaries, notRun, runEnv, loop, batched_queries, requests,
                   results, batch_dfs, temp_files, files, all_dfs, reference_data,
                   combined_data, transformed_data, final_data, processed_data,
                   query_files, result_files, live, db_table, db_attempts, outputs>>

\* lines 1068-1072: the fold; log_structure_transformation divides by the
\* number of itineraries of the enriched data (src/stats.py:451)
TransformFlightStructure ==
    /\ rpc = "transform"
    /\ transformed_data' = transform_flight_structure(enriched_data, reference_data)
    /\ warnings' = warnings \o transform_warnings(reference_data)
    /\ rpc' = IF Len(enriched_data) = 0 THEN "failed" ELSE "transformed"
    /\ trace' = Append(trace, step("fold"))
    /\ UNCHANGED <<dictionaries, notRun, runEnv, loop, batched_queries, requests,
                   results, batch_dfs, temp_files, files, all_dfs, reference_data,
                   combined_data, enriched_data, final_data, processed_data,
                   query_files, result_files, live, db_table, db_attempts,
                   outputs>>

\* lines 1074-1076
CalculateFlightMetrics ==
    /\ rpc = "transformed"
    /\ \E clock \in Clock :
        final_data' = calculate_flight_metrics(transformed_data, clock)
    /\ rpc' = "database"
    /\ trace' = Append(trace, step("finalize"))
    /\ UNCHANGED <<dictionaries, notRun, runEnv, loop, batched_queries, requests,
                   results, batch_dfs, temp_files, files, all_dfs, reference_data,
                   combined_data, enriched_data, transformed_data, processed_data,
                   query_files, result_files, live, db_table, db_attempts,
                   warnings, outputs>>

\* where save_to_database raises, if it does
DbFailures == {"none", "connect", "truncate", "chunk"}

after_database_uncaught(failure) == IF failure = "none" THEN "save" ELSE "failed"
\* lines 1080-1084: what save_to_database raises is caught, and
\* process_flight_data returns to run_eduardo
after_database(failure) == "save"

\* lines 1078-1089 and 984-1025: save_to_database unless config.d; whatever
\* it raises is logged, raised again and caught here; final_data is returned
SaveToDatabase ==
    /\ rpc = "database"
    /\ IF config.d
       THEN /\ rpc' = "save"
            /\ UNCHANGED <<db_table, db_attempts, warnings>>
       ELSE \E failure \in DbFailures :
              /\ rpc' = after_database(failure)
              /\ failure = "chunk" => Len(final_data) > 0
              /\ db_attempts' = db_attempts + 1
              /\ db_table' = CASE failure \in {"connect", "truncate"} -> db_table
                               [] failure = "chunk" -> <<>>
                               [] OTHER -> final_data
              /\ warnings' = IF failure = "none" THEN warnings
                             ELSE Append(warnings, "Database error")
    /\ processed_data' = final_data
    /\ UNCHANGED <<dictionaries, notRun, runEnv, loop, batched_queries, requests,
                   results, batch_dfs, temp_files, files, all_dfs, reference_data,
                   combined_data, enriched_data, transformed_data, final_data,
                   query_files, result_files, live, outputs, trace>>

\* lines 1250-1253: nothing was retrieved, processed_data = pd.DataFrame()
SkipProcessing ==
    /\ rpc = "no_data"
    /\ processed_data' = <<>>
    /\ rpc' = "save"
    /\ UNCHANGED <<dictionaries, notRun, runEnv, loop, batched_queries, requests,
                   results, batch_dfs, temp_files, files, all_dfs, reference_data,
                   combined_data, enriched_data, transformed_data, final_data,
                   query_files, result_files, live, db_table, db_attempts,
                   warnings, outputs, trace>>

\* lines 1132-1204: unless config.s the CSV, then the Parquet output is
\* written, to S3 or to data/; an exception of either is logged
SaveProcessedData ==
    /\ rpc = "save"
    /\ IF config.s
       THEN UNCHANGED <<outputs, warnings>>
       ELSE \E saved \in {{"csv", "parquet"}, {"csv"}, {}} :
              /\ outputs' = outputs \cup saved
              /\ warnings' = IF saved = {"csv", "parquet"} THEN warnings
                             ELSE Append(warnings, "Error saving data")
    /\ rpc' = "cleanup"
    /\ UNCHANGED <<dictionaries, notRun, runEnv, loop, batched_queries, requests,
                   results, batch_dfs, temp_files, files, all_dfs, reference_data,
                   combined_data, enriched_data, transformed_data, final_data,
                   processed_data, query_files, result_files, live, db_table,
                   db_attempts, trace>>

\* glob of queries/query{qt}-{ft}-batch*.xml or results/results{qt}-{ft}-batch*.xml
\* over the flight types of the run and every query type
RunFlightTypes == {flight_types[i] : i \in 1..Len(flight_types)}
matches_pattern(name) ==
    /\ name.flight_type \in RunFlightTypes
    /\ name.query_type \in {QueryTypes[i] : i \in 1..Len(QueryTypes)}

\* lines 1092-1129: unless config.c every matching file is removed
CleanUpTemporaryFiles ==
    /\ rpc = "cleanup"
    /\ IF config.c
       THEN UNCHANGED <<query_files, result_files>>
       ELSE /\ query_files' = {n \in query_files : ~matches_pattern(n)}
            /\ result_files' = [n \in {x \in DOMAIN result_files : ~matches_pattern(x)}
                                   |-> result_files[n]]
    /\ rpc' = "done"
    /\ UNCHANGED <<dictionaries, notRun, runEnv, loop, batched_queries, requests,
                   results, batch_dfs, temp_files, files, all_dfs, reference_data,
                   combined_data, enriched_data, transformed_data, final_data,
                   processed_data, live, db_table, db_attempts, warnings,
                   outputs, trace>>

RunNext ==
    \/ GenerateQueries \/ ExecuteQuery \/ ParseBatch \/ PersistBatch \/ NextQuery
    \/ LoadBatchFiles \/ CreateReferenceDataframes \/ CleanRawFlightData
    \/ EnrichFlightData \/ TransformFlightStructure \/ CalculateFlightMetrics
    \/ SaveToDatabase \/ SkipProcessing \/ SaveProcessedData
    \/ CleanUpTemporaryFiles

SpecRun == RunInit /\ [][RunNext]_vars

---------------------------------------------------------------------------
\* SpecMain: the run started from src/main.py

\* parser.parse_args(): every combination of the five store_true flags
CommandLines == [o : BOOLEAN, d : BOOLEAN, c : BOOLEAN, b : BOOLEAN, s : BOOLEAN]

\* src/main.py:29: Config(o=args.o, d=args.d, c=args.c, b=args.b); s keeps
\* the default of the dataclass
main_config(parsed) ==
    [o |-> parsed.o, d |-> parsed.d, c |-> parsed.c, b |-> parsed.b, s |-> FALSE]

\* the files under results/ before the run: none, or those an earlier run
\* with the same sheet has left for flight type F
StoredResults ==
    {<<>>}
    \cup {[n \in {scratch_file("results", QueryTypes[q], "F", 1) :
                    q \in 1..Len(QueryTypes)} |-> RunDocs[k]] : k \in {1, 4}}

MainInit ==
    /\ dictionaries = EmptyDictionaries
    /\ ParserIdle /\ PlannerIdle /\ TwiceIdle
    /\ origins = <<"A1">> /\ destinations = <<>> /\ origin_and_destination = <<>>
    /\ cli_args \in CommandLines
    /\ config = main_config(cli_args)
    /\ aws = FALSE
    /\ flight_types = <<"F">>
    /\ countries_df = <<[code |-> "US", name |-> "United States"],
                        [code |-> "FR", name |-> "France"]>>
    /\ result_files \in StoredResults
    /\ query_files = {scratch_file("queries", n.query_type, n.flight_type, n.batch) :
                         n \in DOMAIN result_files}
    /\ db_table = PreviousRows
    /\ RunStart

SpecMain == MainInit /\ [][RunNext]_vars

---------------------------------------------------------------------------
\* SpecTwice: parse_results invoked twice on the same document with the same
\* arguments, the accumulators of src/auxiliary.py emptied in between

\* bound of this specification: the elements after the head of the document
MaxBody == 4

\* the elements of the body of a document
BodyElements ==
    {Solution, Flight("X", "1"), Leg("A", "B", "10:00", "11:00"),
     El("leg", [origin |-> "C", destination |-> "D", departure |-> "12:00"]),
     Aircraft("737", "narrow")}

\* the documents: a head, then up to MaxBody elements
TwiceDocs ==
    {head \o body :
        head \in {<<>>, <<Marker>>, <<CarrierRef("X", "Xair"), Marker, Solution>>},
        body \in UNION {[1..n -> BodyElements] : n \in 0..MaxBody}}

\* dfs, row, s_id of the return statement (line 427), or the KeyError
return_of(ps) ==
    [dfs |-> ps.dfs, row |-> ps.row, s_id |-> ps.s_id, raised |-> ps.raised]

TwiceInit ==
    /\ dictionaries = EmptyDictionaries
    /\ ParserIdle /\ SheetIdle /\ PlannerIdle /\ RunIdle
    /\ twice_pc = "first"
    /\ twice_doc \in TwiceDocs
    /\ twice_args \in ParseArgs
    /\ first_return = NoReturn /\ second_return = NoReturn

notTwice == <<parserVars, sheetVars, plannerVars, runVars>>

\* the first invocation, the clock reading anything
ParseFirst ==
    /\ twice_pc = "first"
    /\ \E clock \in Clock :
        LET r == parse_results(twice_doc, dictionaries, twice_args, clock)
        IN /\ dictionaries' = r.dicts
           /\ first_return' = return_of(r.ps)
    /\ twice_pc' = "reset"
    /\ UNCHANGED <<notTwice, twice_doc, twice_args, second_return>>

\* the four accumulators are set back to their values at import
ResetAccumulators ==
    /\ twice_pc = "reset"
    /\ dictionaries' = EmptyDictionaries
    /\ twice_pc' = "second"
    /\ UNCHANGED <<notTwice, twice_doc, twice_args, first_return, second_return>>

\* the second invocation, the clock reading anything
ParseSecond ==
    /\ twice_pc = "second"
    /\ \E clock \in Clock :
        LET r == parse_results(twice_doc, dictionaries, twice_args, clock)
        IN /\ dictionaries' = r.dicts
           /\ second_return' = return_of(r.ps)
    /\ twice_pc' = "done"
    /\ UNCHANGED <<notTwice, twice_doc, twice_args, first_return>>

TwiceNext == ParseFirst \/ ResetAccumulators \/ ParseSecond

SpecTwice == TwiceInit /\ [][TwiceNext]_vars

---------------------------------------------------------------------------
\* SpecBuilder: reference elements are accumulated by the parse loop, and
\* create_reference_dataframes is called, in any order and any number of
\* times in one process

\* bound of this specification: the reference elements accumulated
MaxAccumulated == 4

\* the reference elements a response may hold
BuilderElements ==
    {CityRef("K1", "US"), CityRef("K1", "FR"), CityRef("K2", "FR"),
     AirportRef("K1", "A", "Alpha"), AirportRef("K1", "A", "Alfa"),
     AirportRef("K9", "D", "Delta"),
     El("airport", [city |-> "K1", code |-> "A", name |-> "Alpha"]),
     CarrierRef("X", "Xair")}

BuilderInit ==
    /\ dictionaries = EmptyDictionaries
    /\ ParserIdle /\ SheetIdle /\ PlannerIdle /\ RunIdle /\ TwiceIdle

\* lines 380-382: the parse loop meets a reference element
AccumulateElement ==
    /\ rpc \in {"idle", "built"}
    /\ RefRows(dictionaries) < MaxAccumulated
    /\ \E el \in BuilderElements :
          dictionaries' = process_dict_updates(dictionaries, el)
    /\ rpc' = "idle"
    /\ UNCHANGED <<parserVars, sheetVars, plannerVars, twiceVars, reference_data,
                   cli_args, config, aws, flight_types, countries_df, loop,
                   batched_queries, requests, live, query_files, result_files,
                   results, batch_dfs, temp_files, files, all_dfs,
                   combined_data, enriched_data, transformed_data, final_data,
                   processed_data, db_table, db_attempts, warnings, outputs, trace>>

\* lines 618-672: create_reference_dataframes; a ValueError ends the process
BuildReferenceTables ==
    /\ rpc \in {"idle", "built"}
    /\ IF reference_raises
       THEN rpc' = "failed" /\ UNCHANGED reference_data
       ELSE /\ reference_data' = create_reference_dataframes(countries_df)
            /\ rpc' = "built"
    /\ UNCHANGED <<dictionaries, parserVars, sheetVars, plannerVars, twiceVars,
                   cli_args, config, aws, flight_types, countries_df, loop,
                   batched_queries, requests, live, query_files, result_files,
                   results, batch_dfs, temp_files, files, all_dfs,
                   combined_data, enriched_data, transformed_data, final_data,
                   processed_data, db_table, db_attempts, warnings, outputs, trace>>

BuilderNext == AccumulateElement \/ BuildReferenceTables

SpecBuilder == BuilderInit /\ [][BuilderNext]_vars

---------------------------------------------------------------------------
\* Properties of the parser

\* the step taken is one iteration of the loop
IsIterStep == fed' = fed + 1

\* the six required fields of an emitted row
SixFieldsNonEmpty(r) ==
    /\ r.Flight_Type # None /\ r.Flight_Type # ""
    /\ r.Origin # None /\ r.Origin # ""
    /\ r.Destination # None /\ r.Destination # ""
    /\ r.Flight_No # None /\ r.Flight_No # ""
    /\ r.Airline_Code # None /\ r.Airline_Code # ""
    /\ r.Solution_ID >= 1

\* a required field of the pending record fd is empty
PendingIncomplete(fd) ==
    \/ fd.origin \in {None, ""} \/ fd.destination \in {None, ""}
    \/ fd.f_id \in {None, ""} \/ fd.carrier \in {None, ""}
    \/ fd.s_id = 0

\* C3: every LegRecord of the list parse_results builds (and returns) has its
\* six required fields non-empty, and an iteration over an aircraft element
\* while a required field of the pending record is empty adds no record.
C3_RequiredFieldsNonEmpty ==
    [][/\ \A i \in 1..Len(dfs') : SixFieldsNonEmpty(dfs'[i])
       /\ (IsIterStep /\ child'.tag = "aircraft" /\ state # NoState
           /\ PendingIncomplete(state[1]))
          => dfs' = dfs]_vars

\* a parse returned a record although an earlier aircraft element was rejected
C3_Witness ==
    /\ ppc = "returned"
    /\ Len(dfs) >= 1
    /\ Len(log) >= 1

\* C6: an aircraft element met while a required field of the pending record
\* is empty leaves the output list and the row counter unchanged, emits one
\* diagnostic, and the parser goes on with the next element.
C6_DroppedRecordParsingContinues ==
    [][(IsIterStep /\ child'.tag = "aircraft" /\ state # NoState
        /\ PendingIncomplete(state[1]))
       => /\ dfs' = dfs /\ row' = row
          /\ log' = Append(log, "Skipping invalid row")
          /\ ppc' = "iter"]_vars

\* C7: the solution counter of an invocation equals the number of solution
\* elements met at or after the marker in that invocation (0 when it starts),
\* and the itinerary ids of the rows are >= 1, at most the counter, and
\* non-decreasing in list order.
C7_SolutionCounter ==
    /\ s_id = sols_after
    /\ \A i \in 1..Len(dfs) :
        /\ dfs[i].Solution_ID >= 1
        /\ dfs[i].Solution_ID <= s_id
        /\ \A j \in 1..i : dfs[j].Solution_ID <= dfs[i].Solution_ID

\* a second invocation has returned, with one solution counted after its
\* marker, once at least five elements were fed
C7_Witness ==
    /\ ppc = "returned"
    /\ parses = 2
    /\ s_id = 1
    /\ seen_marker
    /\ fed >= 5

\* C8: solution, flight, leg and aircraft elements before the marker, and
\* flight, leg and aircraft elements after the marker but before the first
\* solution element, change no local of the parse (no record, no counter, no
\* pending record, no diagnostic) and do not end it.
C8_NothingBeforeFirstSolution ==
    [][(/\ IsIterStep
        /\ \/ /\ ~started_yet
              /\ child'.tag \in {"solution", "flight", "leg", "aircraft"}
           \/ /\ state = NoState
              /\ child'.tag \in {"flight", "leg", "aircraft"})
       => /\ UNCHANGED <<dfs, row, s_id, state, started_yet, log>>
          /\ ppc' = "iter"]_vars

\* an aircraft element after the marker and before any solution was only
\* accumulated, like the one before the marker
C8_Witness ==
    /\ ppc = "iter"
    /\ started_yet /\ state = NoState
    /\ child.tag = "aircraft"
    /\ Len(dictionaries.aircraft.name) = 2
    /\ row = 0 /\ s_id = 0

\* the document has a leg without arrival inside an itinerary
leg_without_arrival_met(doc) ==
    \E i, j, k \in 1..Len(doc) :
        /\ i < j /\ j < k
        /\ doc[i].tag = "itineraryFullDetail" /\ doc[j].tag = "solution"
        /\ doc[k].tag = "leg" /\ ~has(doc[k], "arrival")

\* C12: two invocations of parse_results on the same document with the same
\* flight type, query direction and batch number, the accumulators emptied in
\* between, return the same list of rows, the same row counter and the same
\* itinerary counter, whatever the clock reads during either.
C12_SameDocumentSameRows ==
    twice_pc = "done" =>
        /\ first_return.dfs = second_return.dfs
        /\ first_return.row = second_return.row
        /\ first_return.s_id = second_return.s_id

\* both invocations returned a row of a document with a leg without arrival
C12_Witness ==
    /\ twice_pc = "done"
    /\ leg_without_arrival_met(twice_doc)
    /\ Len(second_return.dfs) >= 1

\* a leg element without one of the four attributes update_leg_info reads
lacks_leg_attribute(el) ==
    /\ el.tag = "leg"
    /\ \E a \in {"origin", "destination", "departure", "arrival"} : ~has(el, a)

\* C23: when the loop hands a leg element that lacks one of origin,
\* destination, departure, arrival to the pending record, the record's
\* origin and destination are both empty afterwards, whatever the element
\* or the record held, and its two timestamps are one reading of the
\* clock; every other field of the record is as before.
C23_IncompleteLegIsBlanked ==
    [][(IsIterStep /\ lacks_leg_attribute(child') /\ state # NoState)
       => /\ state' # NoState
          /\ state'[1].origin = "" /\ state'[1].destination = ""
          /\ state'[1].depart_dt = state'[1].arrive_dt
          /\ state'[1].depart_dt \in {NowStamp(t) : t \in Clock}
          /\ \E o, d, dep \in {"", "A", "B", "C", "10:00", "12:00", "13:30",
                                 "11:00", None, NowStamp(0), NowStamp(1)} :
                state[1] = [state'[1] EXCEPT !.origin = o, !.destination = d,
                                             !.depart_dt = dep,
                                             !.arrive_dt = state[1].arrive_dt]
          /\ ppc' = "iter"]_vars

\* a pending record that held the leg A -> B of 10:00 has just been given
\* a leg element with origin, destination and departure but no arrival
C23_Witness ==
    /\ ppc = "iter"
    /\ lacks_leg_attribute(child) /\ has(child, "origin") /\ has(child, "departure")
    /\ state # NoState
    /\ state[1].origin = "" /\ state[1].destination = ""
    /\ state[1].depart_dt = NowStamp(1) /\ state[1].arrive_dt = NowStamp(1)
    /\ state[1].f_id = "X1"

\* what a leg record holds of its flight and its leg element
flight_data_of(r) ==
    <<r.Flight_No, r.Airline_Code, r.Origin, r.Destination,
      r.Departure_Time, r.Arrival_Time>>

\* C26: inside an itinerary, a record emitted at an aircraft element takes
\* its flight number, carrier, origin, destination and timestamps from a
\* flight and a leg element that came after the previous aircraft element;
\* so an aircraft element that directly follows an aircraft element of the
\* same itinerary, no flight or leg element between them, yields no record
\* with the flight data of the record before it.
C26_NoCarryOverBetweenAircraft ==
    [][(IsIterStep /\ child.tag = "aircraft" /\ child'.tag = "aircraft"
        /\ state # NoState /\ Len(dfs') = Len(dfs) + 1 /\ Len(dfs) >= 1)
       => \/ dfs'[Len(dfs')].Solution_ID # dfs[Len(dfs)].Solution_ID
          \/ flight_data_of(dfs'[Len(dfs')]) # flight_data_of(dfs[Len(dfs)])]_vars

\* C27: parse_results goes through every element of a well-formed document
\* and returns: no element, whatever attributes it lacks (a flight without
\* carrier or number, an aircraft of an itinerary without name or width),
\* makes an iteration of the loop raise.
C27_NoElementAbortsTheParse ==
    [][IsIterStep => ppc' = "iter"]_vars

\* C29: no leg record the parse has collected has an empty origin (a record
\* whose leg element was incomplete is rejected, not emitted), so
\* clean_raw_flight_data, given the collected records, removes none.
C29_NoEmittedRecordWithoutOrigin ==
    /\ \A i \in 1..Len(dfs) : dfs[i].Origin # "" /\ dfs[i].Origin # None
    /\ clean_raw_flight_data(dfs) = dfs

\* an incomplete leg element blanked the origin of the pending record of
\* flight X1 and the aircraft element after it was skipped as an invalid
\* row: nothing was collected
C29_Witness ==
    /\ ppc = "iter"
    /\ child.tag = "aircraft"
    /\ state # NoState /\ state[1].origin = "" /\ state[1].f_id = "X1"
    /\ state[1].aircraft = "737"
    /\ dfs = <<>> /\ row = 0
    /\ Len(log) >= 1 /\ log[Len(log)] = "Skipping invalid row"

\* the four reference kinds
ReferenceKinds == DOMAIN EmptyDictionaries

\* C18: an iteration over an element tagged carrier, city, airport or
\* aircraft, wherever the parser is (before the marker, after it, inside an
\* itinerary), adds exactly one entry to every column of that kind's
\* accumulator, so its columns keep one length; the accumulators of the
\* other kinds stay as they are, and so do the locals of the parse unless
\* the element is an aircraft that closes a pending record.
C18_ReferenceElementAppendsOneRow ==
    [][(IsIterStep /\ child'.tag \in ReferenceKinds)
       => LET kind == child'.tag
          IN /\ \A col \in DOMAIN dictionaries[kind] :
                   Len(dictionaries'[kind][col]) = Len(dictionaries[kind][col]) + 1
             /\ same_lengths(dictionaries[kind]) => same_lengths(dictionaries'[kind])
             /\ \A other \in ReferenceKinds \ {kind} :
                   dictionaries'[other] = dictionaries[other]
             /\ (kind # "aircraft" \/ state = NoState)
                   => /\ UNCHANGED <<dfs, s_id, row, started_yet, state, log>>
                      /\ ppc' = "iter"]_vars

---------------------------------------------------------------------------
\* Properties of the batch planner

\* the texts of the children of the slice of a payload that carry tag t
RECURSIVE texts_tagged(_, _, _)
texts_tagged(children, t, i) ==
    IF i > Len(children) THEN <<>>
    ELSE (IF children[i].tag = t THEN <<children[i].text>> ELSE <<>>)
         \o texts_tagged(children, t, i + 1)

BatchedTag == IF q_args[1] = "ORIGIN" THEN "origin" ELSE "destination"
OppositeTag == IF q_args[1] = "ORIGIN" THEN "destination" ELSE "origin"
PrimarySide(k) == texts_tagged(queries[k][1].slice, BatchedTag, 1)
SecondarySide(k) == texts_tagged(queries[k][1].slice, OppositeTag, 1)

\* the batched side's own codes after the origin-and-destination codes
PrimaryList ==
    origin_and_destination
    \o (IF q_args[1] = "ORIGIN" THEN origins ELSE destinations)
\* the opposite side's own codes
SecondaryList == IF q_args[1] = "ORIGIN" THEN destinations ELSE origins

RECURSIVE AllPrimarySides(_)
AllPrimarySides(k) ==
    IF k > Len(queries) THEN <<>> ELSE PrimarySide(k) \o AllPrimarySides(k + 1)

SeqRange(q) == {q[i] : i \in 1..Len(q)}
Min(a, b) == IF a < b THEN a ELSE b

Called == q_args # <<>>
Batched == Called /\ q_args[3]

\* C2: with batching enabled and batch size N >= 1 the i-th payload has batch
\* number i and carries exactly the primary codes at positions (i-1)*N ..
\* min(i*N, len)-1; at most N codes each, only the last may have fewer, and
\* every position of the primary list is in exactly one payload.
C2_ContiguousBatches ==
    Batched =>
        LET N == q_args[4]
            len == Len(PrimaryList)
        IN /\ \A i \in 1..Len(queries) :
                /\ queries[i][2] = i
                /\ (i - 1) * N < len
                /\ PrimarySide(i) =
                     [j \in 1..(Min(i * N, len) - (i - 1) * N) |->
                         PrimaryList[(i - 1) * N + j]]
                /\ Len(PrimarySide(i)) <= N
                /\ (i < Len(queries) => Len(PrimarySide(i)) = N)
           /\ Len(queries) * N >= len
           /\ AllPrimarySides(1) = PrimaryList

\* three primary codes in batches of two: a full payload and a shorter last one
C2_Witness ==
    /\ Batched /\ q_args[4] = 2
    /\ Len(PrimaryList) = 3
    /\ Len(queries) = 2
    /\ Len(PrimarySide(2)) = 1

\* C9: with batching disabled exactly one payload is returned, numbered 1,
\* whose primary side is the whole primary list and whose secondary side is
\* the whole secondary list, whatever the batch size.
C9_SinglePayloadWhenDisabled ==
    (Called /\ ~q_args[3]) =>
        /\ Len(queries) = 1
        /\ queries[1][2] = 1
        /\ PrimarySide(1) = PrimaryList
        /\ SecondarySide(1) = SecondaryList

\* batching disabled, more primary codes than the batch size, both sides present
C9_Witness ==
    /\ Called /\ ~q_args[3]
    /\ Len(PrimaryList) > q_args[4]
    /\ Len(SecondaryList) >= 1
    /\ Len(queries) = 1

\* C10: with batching enabled every payload's secondary side is the complete
\* list of the opposite side's own codes, the payloads' primary sides make up
\* the origin-and-destination codes followed by the batched side's own codes,
\* and no origin-and-destination code is on a secondary side.
C10_SecondaryRepeatedWhole ==
    Batched =>
        /\ \A k \in 1..Len(queries) :
            /\ SecondarySide(k) = SecondaryList
            /\ SeqRange(SecondarySide(k)) \cap SeqRange(origin_and_destination) = {}
        /\ AllPrimarySides(1) = PrimaryList

\* two payloads of a sheet that has codes of all three kinds
C10_Witness ==
    /\ Batched
    /\ Len(queries) >= 2
    /\ Len(origin_and_destination) >= 1
    /\ Len(SecondaryList) >= 1
    /\ Len(PrimaryList) > Len(origin_and_destination)

\* C11: every call of generate_xml_query_batch returns at least one payload,
\* whatever the code sets, the batching mode and the batch size, and a payload
\* has no element on a side whose code set is empty.
C11_PayloadsForEveryCodeSet ==
    Called =>
        /\ Len(queries) >= 1
        /\ \A k \in 1..Len(queries) :
            /\ PrimaryList = <<>> => PrimarySide(k) = <<>>
            /\ SecondaryList = <<>> => SecondarySide(k) = <<>>

---------------------------------------------------------------------------
\* Properties of the run

\* the parsed document a leg row came from
document_of(r) == <<r.Flight_Type, r.Query_Type, r.Batch_Number>>

\* the itinerary of a parsed document a leg row belongs to
itinerary_of(r) == <<document_of(r), r.Solution_ID>>

\* a and b are the same leg record, before or after enrichment
same_leg(a, b) ==
    /\ itinerary_of(a) = itinerary_of(b)
    /\ a.Flight_No = b.Flight_No
    /\ a.Origin = b.Origin /\ a.Destination = b.Destination
    /\ a.Airline_Code = b.Airline_Code /\ a.Aircraft = b.Aircraft

codes_of(table) == {table[i].code : i \in 1..Len(table)}

\* every key of leg row r is present in its reference table
all_keys_matched(r) ==
    /\ r.Origin \in codes_of(reference_data.airport)
    /\ r.Destination \in codes_of(reference_data.airport)
    /\ r.Airline_Code \in codes_of(reference_data.carrier)

\* a batch dataframe holding one itinerary of two legs
one_itinerary_of_two_legs(df) ==
    Len(df) = 2 /\ df[1].Solution_ID = df[2].Solution_ID

\* the countries merge of the fold drops no row
countries_cover_enriched ==
    \/ countries_df = Malformed
    \/ \A i \in 1..Len(enriched_data) :
          /\ enriched_data[i].Origin_Country \in codes_of(countries_df)
          /\ enriched_data[i].Destination_Country \in codes_of(countries_df)

\* C1: when the legs of a run come from two parsed documents, each holding
\* one itinerary of two legs that all survive enrichment, the fold gives two
\* rows, each of two flight numbers and num stops 2; and no group the fold
\* makes one row of holds legs of different parsed documents.
C1_TwoBatchesFoldToTwoRows ==
    rpc = "transformed" =>
      /\ ( /\ Len(all_dfs) = 2
           /\ \A k \in 1..2 : one_itinerary_of_two_legs(all_dfs[k])
           /\ Len(enriched_data) = 4
           /\ countries_cover_enriched )
         => /\ Len(transformed_data) = 2
            /\ \A k \in 1..Len(transformed_data) :
                  /\ transformed_data[k].Num_Stops = 2
                  /\ Len(transformed_data[k].Flights) = 3
                  /\ transformed_data[k].Flights[2] = "|"
      /\ \A i, j \in 1..Len(enriched_data) :
            enriched_data[i].Solution_ID = enriched_data[j].Solution_ID
              => document_of(enriched_data[i]) = document_of(enriched_data[j])

\* C4: enrich_flight_data returns the input rows whose origin, destination
\* and carrier codes are all present in the reference tables, each exactly
\* once, and no other row: the output has as many rows as the input less
\* the rows with an unmatched key.
C4_EnrichKeepsMatchedRowsOnce ==
    rpc = "transform" =>
      LET n == Len(combined_data)
          copies(rows, r) ==
              Cardinality({j \in 1..Len(rows) : same_leg(rows[j], r)})
          unmatched == {i \in 1..n : ~all_keys_matched(combined_data[i])}
      IN /\ Len(enriched_data) = n - Cardinality(unmatched)
         /\ \A i \in 1..n :
               copies(enriched_data, combined_data[i]) =
                 IF i \in unmatched THEN 0
                 ELSE copies(combined_data, combined_data[i])

\* no two rows of the table carry the same code
one_row_per_code(table) ==
    \A i, j \in 1..Len(table) : table[i].code = table[j].code => i = j

\* C28: the Airport table and the Carrier table of a run hold at most one
\* row per code, and enrich_flight_data never returns more rows than it
\* was given.
C28_OneRowPerCodeNoFanOut ==
    /\ one_row_per_code(reference_data.airport)
    /\ one_row_per_code(reference_data.carrier)
    /\ rpc = "transform" => Len(enriched_data) <= Len(combined_data)

\* the groups of the enriched data, one per itinerary id
enriched_groups ==
    {group_rows(enriched_data, sid) :
        sid \in {enriched_data[i].Solution_ID : i \in 1..Len(enriched_data)}}

\* row r of the fold is the fold of group g
row_of_group(r, g) ==
    /\ r.Flights = pipe_join(column(g, "Flight_No"))
    /\ r.Num_Stops = Len(g)
    /\ r.Origin_IATA = g[1].Origin
    /\ r.Destination_IATA = g[Len(g)].Destination
    /\ r.Departure_DT = g[1].Departure_Time
    /\ r.Arrival_DT = g[Len(g)].Arrival_Time

\* C5: every row of transform_flight_structure is the fold of an itinerary
\* (the legs sharing an itinerary id) and its via code is null exactly when
\* the first leg's destination is the last leg's destination: null for a
\* single leg, and B for the two legs A -> B, B -> C with B # C.
C5_ViaNullIffFirstDestinationIsFinal ==
    rpc = "transformed" =>
      \A k \in 1..Len(transformed_data) :
        LET r == transformed_data[k]
        IN \E g \in enriched_groups :
              /\ row_of_group(r, g)
              /\ r.Via_IATA = None <=> g[1].Destination = g[Len(g)].Destination
              /\ r.Via_IATA # None => r.Via_IATA = g[1].Destination
              /\ Len(g) = 1 => r.Via_IATA = None

\* a run whose fold gave a row of the two legs A -> B, B -> C with via B
\* and a row of a single leg with no via
C5_Witness ==
    /\ rpc = "transformed"
    /\ \E k \in 1..Len(transformed_data) :
          LET r == transformed_data[k]
          IN /\ r.Num_Stops = 2 /\ r.Origin_IATA = "A"
             /\ r.Via_IATA = "B" /\ r.Destination_IATA = "C"
    /\ \E k \in 1..Len(transformed_data) :
          LET r == transformed_data[k]
          IN r.Num_Stops = 1 /\ r.Via_IATA = None

\* the query phase has returned and no batch of the run gave a leg record
no_leg_record == rpc # "generate" /\ loops_finished /\ temp_files = <<>>

\* C13: when no batch of a run produced a leg record, the run does not
\* fail: it goes on through the save and cleanup phases to the end of
\* run_eduardo, always with a next step to take, and the final result is
\* the empty table.
C13_EmptyInputRunCompletes ==
    no_leg_record =>
      /\ rpc \in {"no_data", "save", "cleanup", "done"}
      /\ rpc # "done" => ENABLED RunNext
      /\ rpc # "no_data" => processed_data = <<>>
      /\ final_data = <<>>

\* a run that issued requests, parsed a document without any leg record
\* for each and reached the end of run_eduardo
C13_Witness ==
    /\ rpc = "done"
    /\ no_leg_record
    /\ requests >= 2
    /\ processed_data = <<>>

\* logger.error of save_to_database was called
database_failed == \E k \in 1..Len(warnings) : warnings[k] = "Database error"

\* C14: once save_to_database has been called, whether the connection, the
\* truncate or a chunk upload failed or none did, the run is in its save
\* or cleanup phase or at its end, with a next step to take before the end;
\* process_flight_data has returned the finalized data, and a write that
\* did not put the finalized data in the table is logged.
C14_DatabaseFailureIsCaught ==
    db_attempts > 0 =>
      /\ rpc \in {"save", "cleanup", "done"}
      /\ rpc # "done" => ENABLED RunNext
      /\ processed_data = final_data
      /\ db_table # final_data => database_failed

\* a run whose chunk upload failed after the truncate and which reached the
\* end of run_eduardo with rows and both output files
C14_Witness ==
    /\ rpc = "done"
    /\ database_failed
    /\ db_table = <<>>
    /\ Len(processed_data) >= 1
    /\ outputs = {"csv", "parquet"}

\* C15: in a run started from src/main.py, with -o no live request is
\* issued and each response parsed is the one stored in the scratch file;
\* with -d save_to_database is never called; with -c no file under queries/
\* or results/ is removed; with -b every query is a single payload; with -s
\* no CSV and no Parquet output is written.
C15_FlagsGateCollaborators ==
    /\ [](cli_args.o =>
            /\ live = 0
            /\ rpc = "parse" =>
                  results = result_files[scratch_file("results", current_query_type,
                                                      current_flight_type,
                                                      current_batch_num)])
    /\ [](cli_args.d => db_attempts = 0)
    /\ [][cli_args.c => /\ query_files \subseteq query_files'
                         /\ DOMAIN result_files \subseteq DOMAIN result_files']_vars
    /\ [](cli_args.b /\ rpc = "batch" => Len(batched_queries) = 1)
    /\ [](cli_args.s => outputs = {})

\* the positions of the steps named in names
steps_named(names) == {i \in 1..Len(trace) : trace[i][1] \in names}
\* the batch a step belongs to
batch_of(e) == <<e[2], e[3], e[4]>>
\* the payloads planned for flight type f and query direction q
planned(f, q) ==
    generate_xml_query_batch(QueryTypes[q], flight_types[f], ~config.b, BatchSize,
                             origins, destinations, origin_and_destination)

\* C16: the steps of a run are strictly ordered. A parse directly follows
\* the request of its batch and a persist the parse of its batch; a request
\* other than the first directly follows the persist of another batch, and
\* no batch is requested twice. The reference tables are built at most
\* once, after every step of every batch, when every payload planned for
\* every flight type and query direction has been parsed; the steps after
\* it are enrichment, fold and finalizer, once each and in that order, and
\* none of these happens without it.
C16_StepsStrictlyOrdered ==
    /\ \A i \in 1..Len(trace) :
          LET e == trace[i]
          IN /\ e[1] = "parse" =>
                  i > 1 /\ trace[i - 1] = <<"request", e[2], e[3], e[4]>>
             /\ e[1] = "persist" =>
                  i > 1 /\ trace[i - 1] = <<"parse", e[2], e[3], e[4]>>
             /\ e[1] = "request" /\ i > 1 =>
                  /\ trace[i - 1][1] = "persist"
                  /\ \A j \in 1..(i - 1) : batch_of(trace[j]) # batch_of(e)
             /\ e[1] = "request" => i % 3 = 1
    /\ Cardinality(steps_named({"reference"})) <= 1
    /\ \A r \in steps_named({"reference"}) :
          /\ steps_named({"request", "parse", "persist"}) = 1..(r - 1)
          /\ \A f \in 1..Len(flight_types), q \in 1..Len(QueryTypes) :
                Cardinality({i \in steps_named({"parse"}) :
                                trace[i][2] = f /\ trace[i][3] = q})
                  = Len(planned(f, q))
          /\ LET after == SubSeq(trace, r + 1, Len(trace))
                 order == <<"enrich", "fold", "finalize">>
             IN /\ Len(after) <= 3
                /\ \A k \in 1..Len(after) : after[k][1] = order[k]
    /\ steps_named({"enrich", "fold", "finalize"}) # {}
          => steps_named({"reference"}) # {}

\* a run of two batches, each requested, parsed and persisted, then the
\* reference tables, the enrichment, the fold and the finalizer
C16_Witness ==
    /\ rpc = "database"
    /\ Len(trace) = 10
    /\ trace[4][1] = "request" /\ trace[7][1] = "reference"
    /\ trace[10][1] = "finalize"

\* C17: for every row of the finalizer, Duration DT is the number of
\* seconds from the row's first departure to its final arrival, and
\* duration is that number divided by 3600 and rounded to two decimals
\* (held in hundredths of an hour: at most half a hundredth away); a
\* departure at 10:00 with an arrival at 13:30 of the same day gives 12600
\* seconds and 3.50 hours.
C17_DurationSecondsAndHours ==
    \A k \in 1..Len(final_data) :
      LET r == final_data[k]
          minutes == r.Arrival_DT - r.Departure_DT
          error == 100 * r.Duration_DT - 3600 * r.duration
      IN /\ r.Duration_DT = 60 * minutes
         /\ error <= 1800 /\ -1800 <= error
         /\ r.Departure_DT = date_parse("10:00") /\ r.Arrival_DT = date_parse("13:30")
              => r.Duration_DT = 12600 /\ r.duration = 350

\* a finalized table with a row from 10:00 to 13:30, of 12600 seconds and
\* 3.50 hours, and a row of 1 h 40 min, rounded up to 1.67 hours
C17_Witness ==
    /\ rpc = "database"
    /\ \E k \in 1..Len(final_data) :
          /\ final_data[k].Departure_DT = 600 /\ final_data[k].Arrival_DT = 810
          /\ final_data[k].Duration_DT = 12600 /\ final_data[k].duration = 350
    /\ \E k \in 1..Len(final_data) :
          final_data[k].Duration_DT = 6000 /\ final_data[k].duration = 167

\* the step of process_flight_data that calls calculate_flight_metrics
IsFinalizeStep == rpc = "transformed" /\ rpc' = "database"
\* the columns the finalizer computes: the duration fields and its stamp
computed_columns == {"Duration_DT", "duration", "Updated"}

\* C25: calculate_flight_metrics returns as many rows as it was given; each
\* row has every column of the required list; every column the row had
\* before, the duration fields apart, holds the value it held; every
\* required column the row lacked, duration apart, holds the null marker;
\* and the only other columns are the duration in seconds and the stamp.
C25_FinalizerOnlyAdds ==
    [][IsFinalizeStep =>
         /\ Len(final_data') = Len(transformed_data)
         /\ \A i \in 1..Len(transformed_data) :
              LET before == transformed_data[i]
                  after == final_data'[i]
              IN /\ required_columns \subseteq DOMAIN after
                 /\ DOMAIN before \subseteq DOMAIN after
                 /\ \A c \in DOMAIN before \ computed_columns :
                       after[c] = before[c]
                 /\ \A c \in (required_columns \ DOMAIN before) \ computed_columns :
                       after[c] = None
                 /\ DOMAIN after \ (DOMAIN before \cup required_columns)
                       \subseteq computed_columns]_vars

\* a finalized row of a run whose fold could not add the countries: the
\* country columns and the columns no stage fills were added as nulls, the
\* folded columns are as the fold left them
C25_Witness ==
    /\ rpc = "database"
    /\ Len(final_data) = 1 /\ Len(transformed_data) = 1
    /\ "Origin_Country" \notin DOMAIN transformed_data[1]
    /\ "Origin_Closed" \notin DOMAIN transformed_data[1]
    /\ final_data[1].Origin_Country = None
    /\ final_data[1].Origin_Closed = None
    /\ final_data[1].Dummy_Column_6 = None
    /\ final_data[1].Flights = transformed_data[1].Flights
    /\ final_data[1].Num_Stops = 1

\* the leg records of the parse of the batch of step e of the run, computed
\* from the response stored for that batch
parsed_records(e) ==
    LET ft == flight_types[e[2]]
        qt == QueryTypes[e[3]]
        bn == planned(e[2], e[3])[e[4]][2]
        doc == result_files[scratch_file("results", qt, ft, bn)]
    IN parse_results(doc, EmptyDictionaries, <<ft, qt, bn>>, 0).ps.dfs
\* the records of the parses that have returned, step i onwards, in the
\* order of the parses
RECURSIVE all_parsed(_)
all_parsed(i) ==
    IF i > Len(trace) THEN <<>>
    ELSE (IF trace[i][1] = "persist" THEN parsed_records(trace[i]) ELSE <<>>)
         \o all_parsed(i + 1)
\* the contents of the listed scratch files, in the order of the list
stored_records ==
    concat([k \in 1..Len(temp_files) |-> files[temp_files[k]]])
\* query_and_process_flights has returned and the stored responses have
\* not yet been cleaned up
handed_over ==
    rpc \in {"reference", "no_data", "clean", "enrich", "transform",
             "transformed", "database", "save", "cleanup"}

C19_RowLossDoesNotStopThePipeline ==
    steps_named({"enrich"}) # {} =>
      /\ rpc # "failed"
      /\ rpc \in {"save", "cleanup", "done"} =>
            Len(processed_data) = Len(transformed_data)

\* a warning with this text was logged
warned(text) == \E k \in 1..Len(warnings) : warnings[k] = text
\* some row of the table has a key in column c that the reference table lacks
has_unmatched(table, c, reference) ==
    \E i \in 1..Len(table) : table[i][c] \notin codes_of(reference)

\* C20: after enrich_flight_data, for each of its three joins in turn: if
\* at least one of the rows given to the join had a key absent from the
\* reference table, so that the join discarded it, the warning of that
\* join about lost rows was logged.
C20_EveryLossyJoinWarns ==
    rpc = "transform" =>
      LET after_origin == join_origin(combined_data, reference_data)
          after_destination == join_destination(after_origin, reference_data)
      IN /\ has_unmatched(combined_data, "Origin", reference_data.airport)
              => warned("Lost rows when joining origin airport data")
         /\ has_unmatched(after_origin, "Destination", reference_data.airport)
              => warned("Lost rows when joining destination airport data")
         /\ has_unmatched(after_destination, "Airline_Code", reference_data.carrier)
              => warned("Lost rows when joining carrier data")

\* the entries of a '|'-joined list
entries(joined) == [k \in 1..((Len(joined) + 1) \div 2) |-> joined[2 * k - 1]]
\* what leg e gives to the four lists of its itinerary row
listed(e) == <<e.Flight_No, e.Airline_Code, e.Aircraft, e.Width>>
\* what the four lists of row r hold at position k
listed_at(r, k) ==
    <<entries(r.Flights)[k], entries(r.Airline_Codes)[k],
      entries(r.Aircrafts)[k], entries(r.Widths)[k]>>
\* leg i of group g may stand at position k of an ascending departure order
may_stand_at(g, i, k) ==
    /\ Cardinality({j \in 1..Len(g) : g[j].Departure_Time < g[i].Departure_Time}) <= k - 1
    /\ Cardinality({j \in 1..Len(g) : g[j].Departure_Time <= g[i].Departure_Time}) >= k

\* C21: every row of the fold is the fold of a group of legs g (the legs of
\* one itinerary id) such that its origin fields and departure are those of
\* a leg of g with the earliest departure, its destination fields and
\* arrival those of a leg of g with the latest departure, and its flight,
\* carrier, aircraft and width lists each have Num Stops = |g| entries, one
\* per leg of g, in ascending order of departure.
C21_FoldTakesEarliestAndLatestLeg ==
    rpc = "transformed" =>
      \A n \in 1..Len(transformed_data) :
        LET r == transformed_data[n]
        IN \E g \in enriched_groups :
             LET legs == 1..Len(g)
                 earliest == {i \in legs : \A j \in legs :
                                 g[i].Departure_Time <= g[j].Departure_Time}
                 latest == {i \in legs : \A j \in legs :
                               g[j].Departure_Time <= g[i].Departure_Time}
             IN /\ r.Num_Stops = Len(g)
                /\ \E i \in earliest :
                      /\ r.Origin_IATA = g[i].Origin
                      /\ r.Origin_Airport_Name = g[i].Origin_Airport_Name
                      /\ r.Origin_ISO_Country_Code = g[i].Origin_Country
                      /\ r.Origin_Latitude = g[i].Origin_Latitude
                      /\ r.Origin_Longitude = g[i].Origin_Longitude
                      /\ r.Departure_DT = g[i].Departure_Time
                /\ \E i \in latest :
                      /\ r.Destination_IATA = g[i].Destination
                      /\ r.Destination_Airport_Name = g[i].Destination_Airport_Name
                      /\ r.Destination_ISO_Country_Code = g[i].Destination_Country
                      /\ r.Destination_Latitude = g[i].Destination_Latitude
                      /\ r.Destination_Longitude = g[i].Destination_Longitude
                      /\ r.Arrival_DT = g[i].Arrival_Time
                /\ \A list \in {"Flights", "Airline_Codes", "Airline_Names",
                                 "Aircrafts", "Widths"} :
                      Len(entries(r[list])) = r.Num_Stops
                /\ \A k \in legs :
                      /\ \E i \in legs : listed(g[i]) = listed_at(r, k)
                                          /\ may_stand_at(g, i, k)
                      /\ Cardinality({i \in legs : listed(g[i]) = listed(g[k])})
                           = Cardinality({i \in legs : listed_at(r, i) = listed(g[k])})

\* a fold of one group whose legs come from two documents, the later
\* document holding the earliest departure: the legs of 09:00, 10:00,
\* 10:20 and 12:00 in that order
C21_Witness ==
    /\ rpc = "transformed"
    /\ Len(all_dfs) = 2
    /\ all_dfs[1][1].Departure_Time = "10:00"
    /\ all_dfs[2][1].Departure_Time = "09:00"
    /\ \E n \in 1..Len(transformed_data) :
          /\ transformed_data[n].Num_Stops = 4
          /\ transformed_data[n].Departure_DT = 540
          /\ entries(transformed_data[n].Flights) = <<"X5", "X1", "X6", "X2">>

---------------------------------------------------------------------------
\* Properties of the reference tables

\* the step taken is a call of create_reference_dataframes that returned
IsBuildStep ==
    \/ rpc = "idle" /\ rpc' = "built"
    \/ rpc = "reference" /\ rpc' = "clean"
\* the rows accumulated for a kind
accumulated(kind) == DataFrame(dictionaries[kind])
\* the first accumulated city row with this code
first_city(code) ==
    LET cities == accumulated("city")
    IN cities[CHOOSE i \in 1..Len(cities) :
                 /\ cities[i].code = code
                 /\ \A j \in 1..(i - 1) : cities[j].code # code]
rows_of(table) == {table[i] : i \in 1..Len(table)}
no_row_twice(table) == \A i, j \in 1..Len(table) : table[i] = table[j] => i = j

\* C22: the City table a build returns has exactly one row per accumulated
\* city code, the first accumulated row with that code; the Airport table
\* holds, once each, exactly the accumulated airport rows whose city code
\* is in the City table, each with the country of that first city row, and
\* no airport of an unknown city.
C22_CityAndAirportTables ==
    [][IsBuildStep =>
         LET city == reference_data'.city
             airport == reference_data'.airport
             known == codes_of(accumulated("city"))
         IN /\ codes_of(city) = known
            /\ Len(city) = Cardinality(known)
            /\ \A i \in 1..Len(city) : city[i] = first_city(city[i].code)
            /\ no_row_twice(airport)
            /\ rows_of(airport) =
                 {a @@ [country |-> first_city(a.city).country] :
                    a \in {x \in rows_of(accumulated("airport")) : x.city \in known}}
      ]_vars

\* a build on two city rows of code K1 (US first, then FR), an airport of
\* K1 and an airport of the unknown city K9: one city row, one airport row
C22_Witness ==
    /\ rpc = "built"
    /\ dictionaries.city.country = <<"US", "FR">>
    /\ dictionaries.city.code = <<"K1", "K1">>
    /\ Cardinality({dictionaries.airport.city[i] : i \in 1..Len(dictionaries.airport.city)}) = 2
    /\ Len(reference_data.city) = 1
    /\ Len(reference_data.airport) = 1
    /\ reference_data.airport[1].country = "US"


\* list a is the beginning of list b
is_prefix(a, b) == Len(a) <= Len(b) /\ SubSeq(b, 1, Len(a)) = a
\* a call of create_reference_dataframes, returning or raising
IsBuildCall == IsBuildStep \/ (rpc \in {"idle", "reference"} /\ rpc' = "failed")

\* C24: in every step, of a parse, of a build or of anything else, every
\* column of every accumulator keeps the entries it had, in place, and may
\* only have grown at its end; a build of the reference tables leaves the
\* accumulators as they were, and the tables it returns account for every
\* accumulated row: each aircraft and carrier row is a row of its table,
\* each city code has its row in the City table.
C24_AccumulatorsAppendOnly ==
    [][/\ \A kind \in DOMAIN dictionaries :
            /\ DOMAIN dictionaries'[kind] = DOMAIN dictionaries[kind]
            /\ \A col \in DOMAIN dictionaries[kind] :
                  is_prefix(dictionaries[kind][col], dictionaries'[kind][col])
       /\ IsBuildCall => dictionaries' = dictionaries
       /\ IsBuildStep =>
            /\ rows_of(accumulated("aircraft")) = rows_of(reference_data'.aircraft)
            /\ rows_of(accumulated("carrier")) = rows_of(reference_data'.carrier)
            /\ codes_of(accumulated("city")) = codes_of(reference_data'.city)]_vars

\* tables built from four accumulated elements, the last of them a carrier:
\* two cities, an airport and the carrier are all in the tables
C24_Witness ==
    /\ rpc = "built"
    /\ RefRows(dictionaries) = 4
    /\ codes_of(reference_data.city) = {"K1", "K2"}
    /\ Len(reference_data.airport) = 1
    /\ Len(reference_data.carrier) = 1
    /\ dictionaries.city.code = <<"K1", "K2">>
====
